---------------------------- MODULE Spec2Model ----------------------------
(***************************************************************************)
(* A model of the ETA ML service (services/eta-ml-service): the prediction *)
(* engine (ModelService), the /predict route with its response memoizer,   *)
(* the Redis-backed CacheService, and the training trigger with its        *)
(* background task.                                                        *)
(*                                                                         *)
(* Units.  Durations are integers in ticks of 1/10000 second, straight     *)
(* distances in tenths of a kilometre (s10), road distances in hundredths  *)
(* of a kilometre (r100), ratios and uncertainties in percent, and the     *)
(* traffic and time-of-day multipliers in tenths.  A confidence bound is    *)
(* formed as (eta \div 100) * percent: exact when eta is a whole number of *)
(* seconds, and otherwise short of the real value by under a hundredth of  *)
(* a second.                                                               *)
(***************************************************************************)
EXTENDS Integers, Sequences, FiniteSets, TLC

VARIABLES
    wired,          \* lifespan has injected the services into the route modules
    model_loaded,   \* ModelService.model is not None
    store,          \* the memoizer's entries in the cache backend, by cache key
    resp,           \* the response of the last /predict request
    pred,           \* the (eta, min, max) tuple the last request computed
    calls,          \* the collaborators the last /predict request invoked
    training_state, \* training.py's module-level _training_state
    tasks,          \* the _run_training background tasks scheduled or running
    runs,           \* how many background runs were scheduled so far
    completions,    \* length of the eta:training:completions list
    model_metrics,  \* the model:metrics blob in the cache
    train_resp,     \* the answer of the last trigger_training call
    clock,          \* hours since the process started
    counters,       \* the integer counters of the cache backend, by key
    lists,          \* the lists of the cache backend, by key
    cache_ret,      \* the outcome of the last direct CacheService operation
    adapter_cache,  \* the traffic:* and weather:* entries of the cache backend
    adapter_ret,    \* the outcome of the last condition adapter call
    experiments,    \* experiments.py's module-level _active_experiments
    exp_store,      \* the experiment:* entries of the cache backend
    exp_counters,   \* the exp:* entries of the cache backend
    exp_ret,        \* the outcome of the last experiment operation
    hash_seed,      \* the process's string hash seed (PYTHONHASHSEED)
    batch_ret,      \* the outcome of the last /batch-predict request
    completion_ret, \* the outcome of the last /record-completion request
    ready_ret,      \* the outcome of the last /health/ready request
    health_kv,      \* the health:check entry of the cache backend
    utcnow,         \* seconds since the process started
    calc            \* the last calculation applied directly and its result

predict_vars == <<wired, model_loaded, store, resp, pred, calls>>
train_vars == <<training_state, tasks, runs, completions, model_metrics, train_resp, clock>>
cache_vars == <<counters, lists, cache_ret>>
adapter_vars == <<adapter_cache, adapter_ret>>
exp_vars == <<experiments, exp_store, exp_counters, exp_ret, hash_seed>>
batch_vars == <<batch_ret>>
probe_vars == <<completion_ret, ready_ret, health_kv, utcnow, calc>>
vars == <<wired, model_loaded, store, resp, pred, calls, training_state, tasks,
          runs, completions, model_metrics, train_resp, clock, counters, lists,
          cache_ret, adapter_cache, adapter_ret, experiments, exp_store,
          exp_counters, exp_ret, hash_seed, batch_ret, completion_ret, ready_ret,
          health_kv, utcnow, calc>>

(***************************************************************************)
(* Units and small helpers                                                 *)
(***************************************************************************)
TicksPerSecond == 100 * 100

Max(a, b) == IF a >= b THEN a ELSE b
Min(a, b) == IF a <= b THEN a ELSE b

\* dict.get(key, default)
FeatGet(f, k, d) == IF k \in DOMAIN f THEN f[k] ELSE d

\* Python truthiness of dict.get(key) for a numeric flag (a missing key is None)
Truthy(f, k) == k \in DOMAIN f /\ f[k] # 0

(***************************************************************************)
(* ModelService (app/services/model_service.py)                            *)
(***************************************************************************)
BASE_SPEED == 25
MIN_ETA_SECONDS == 60
BASE_UNCERTAINTY == 10
MAX_UNCERTAINTY == 30
FALLBACK_UNCERTAINTY == 25
DEFAULT_DISTANCE_KM == 5

\* a table that eases the speed at the heavy level
traffic_multipliers_dipped(level) ==
    CASE level = 0 -> 10
      [] level = 1 -> 13
      [] level = 2 -> 12
      [] level = 3 -> 25
      [] OTHER -> 13

\* traffic_multipliers = {0: 1.0, 1: 1.3, 2: 1.8, 3: 2.5}, default 1.3 (tenths)
traffic_multipliers(level) ==
    CASE level = 0 -> 10
      [] level = 1 -> 13
      [] level = 2 -> 18
      [] level = 3 -> 25
      [] OTHER -> 13

\* time_mult: 1.4 in a rush hour, else 0.8 at night, else 1.0 (tenths)
time_mult(features) ==
    IF Truthy(features, "is_rush_hour_morning") \/ Truthy(features, "is_rush_hour_evening")
    THEN 14
    ELSE IF Truthy(features, "is_night") THEN 8 ELSE 10

\* the sum of the allowances returned without the cap
_calculate_uncertainty_uncapped(features) ==
    LET rain == IF FeatGet(features, "is_raining", 0) # 0 THEN 5 ELSE 0
        heavy == IF FeatGet(features, "traffic_level_encoded", 0) >= 2 THEN 8 ELSE 0
        rush == IF FeatGet(features, "is_rush_hour_morning", 0) # 0
                   \/ FeatGet(features, "is_rush_hour_evening", 0) # 0
                THEN 5 ELSE 0
        long == IF FeatGet(features, "estimated_road_distance_km", 0) > 10 * 100
                THEN 5 ELSE 0
    IN BASE_UNCERTAINTY + rain + heavy + rush + long

\* _calculate_uncertainty, in percent
_calculate_uncertainty(features) ==
    LET rain == IF FeatGet(features, "is_raining", 0) # 0 THEN 5 ELSE 0
        heavy == IF FeatGet(features, "traffic_level_encoded", 0) >= 2 THEN 8 ELSE 0
        rush == IF FeatGet(features, "is_rush_hour_morning", 0) # 0
                   \/ FeatGet(features, "is_rush_hour_evening", 0) # 0
                THEN 5 ELSE 0
        long == IF FeatGet(features, "estimated_road_distance_km", 0) > 10 * 100
                THEN 5 ELSE 0
    IN Min(MAX_UNCERTAINTY, BASE_UNCERTAINTY + rain + heavy + rush + long)

\* eta_seconds = distance_km / (BASE_SPEED / (traffic_mult * time_mult)) * 3600.
\* With r100 = 100 * distance_km and the multipliers in tenths this is
\* r100 * tm * tt * 3600 / (BASE_SPEED * 10000) seconds, i.e.
\* r100 * tm * tt * (3600 \div BASE_SPEED) ticks.
FallbackRawEta(features) ==
    LET r100 == FeatGet(features, "estimated_road_distance_km", DEFAULT_DISTANCE_KM * 100)
        tm == traffic_multipliers(FeatGet(features, "traffic_level_encoded", 1))
    IN r100 * tm * time_mult(features) * (3600 \div BASE_SPEED)

\* return max(60, eta_seconds), max(60, min_eta), max_eta
_fallback_prediction(features) ==
    LET eta == FallbackRawEta(features)
        min_eta == (eta \div 100) * (100 - FALLBACK_UNCERTAINTY)
        max_eta == (eta \div 100) * (100 + FALLBACK_UNCERTAINTY)
    IN [raised |-> FALSE,
        eta |-> Max(MIN_ETA_SECONDS * TicksPerSecond, eta),
        min |-> Max(MIN_ETA_SECONDS * TicksPerSecond, min_eta),
        max |-> max_eta,
        path |-> "fallback"]

\* The ready path of predict: lines 117-134
ModelPathResult(features, outcome) ==
    LET eta == Max(MIN_ETA_SECONDS * TicksPerSecond, outcome.seconds * TicksPerSecond)
        u == _calculate_uncertainty(features)
    IN [raised |-> FALSE,
        eta |-> eta,
        min |-> (eta \div 100) * (100 - u),
        max |-> (eta \div 100) * (100 + u),
        path |-> "model"]

\* predict without its try/except: the model's exception leaves the method.
predict_uncaught(loaded, features, outcome) ==
    IF ~loaded
    THEN _fallback_prediction(features)
    ELSE IF outcome.kind # "value"
         THEN [raised |-> TRUE, eta |-> 0, min |-> 0, max |-> 0, path |-> "none"]
         ELSE ModelPathResult(features, outcome)

\* ModelService.predict: no model -> fallback; an exception raised while the
\* vector is prepared or the model is invoked is caught -> fallback.
predict(loaded, features, outcome) ==
    IF ~loaded
    THEN _fallback_prediction(features)
    ELSE IF outcome.kind # "value"
         THEN _fallback_prediction(features)
         ELSE ModelPathResult(features, outcome)

\* logger.error("Prediction failed, using fallback") in predict's except clause
PredictionFailedLog(loaded, outcome) ==
    IF loaded /\ outcome.kind # "value" THEN {"prediction_failed"} ELSE {}

\* What the loaded model does on one call: it returns a number of seconds, or
\* the call (or the preparation of its vector) raises.
ModelOutcomes ==
    {[kind |-> "raise", seconds |-> 0],
     [kind |-> "value", seconds |-> 45],
     [kind |-> "value", seconds |-> 900]}

(***************************************************************************)
(* FeatureService (app/services/feature_service.py)                        *)
(***************************************************************************)
ROAD_FACTOR_TENTHS == 13

\* _encode_traffic_level: low 0, moderate 1, heavy 2, severe 3, default 1
_encode_traffic_level(level) ==
    CASE level = "low" -> 0
      [] level = "moderate" -> 1
      [] level = "heavy" -> 2
      [] level = "severe" -> 3
      [] OTHER -> 1

\* _calculate_distance_features: estimated road distance = straight * 1.3
_calculate_distance_features(s10) ==
    [k \in {"estimated_road_distance_km"} |-> s10 * ROAD_FACTOR_TENTHS]

\* _extract_temporal_features: the flags derived from the local hour
_extract_temporal_features(hour) ==
    [k \in {"is_rush_hour_morning", "is_rush_hour_evening", "is_night"} |->
        CASE k = "is_rush_hour_morning" -> IF 7 <= hour /\ hour <= 9 THEN 1 ELSE 0
          [] k = "is_rush_hour_evening" -> IF 17 <= hour /\ hour <= 19 THEN 1 ELSE 0
          [] OTHER -> IF hour < 6 \/ hour > 22 THEN 1 ELSE 0]

\* The traffic features of a summary, and the defaults used without one
TrafficFeatures(traffic_data) ==
    [k \in {"traffic_level_encoded"} |->
        IF traffic_data.kind = "ok" THEN _encode_traffic_level(traffic_data.level) ELSE 1]

\* The weather features of a summary, and the defaults used without one
WeatherFeatures(weather_data) ==
    [k \in {"is_raining"} |->
        IF weather_data.kind = "ok" /\ weather_data.condition = "rain" THEN 1 ELSE 0]

\* {**a, **b}
Merge(a, b) ==
    [k \in DOMAIN a \cup DOMAIN b |-> IF k \in DOMAIN b THEN b[k] ELSE a[k]]

\* generate_features(pickup, dropoff, timestamp, ..., traffic_data, weather_data):
\* the feature bag the route hands to the engine.
generate_features(request, traffic_data, weather_data) ==
    Merge(Merge(_calculate_distance_features(request.s10),
                _extract_temporal_features(request.hour)),
          Merge(TrafficFeatures(traffic_data), WeatherFeatures(weather_data)))

\* features = {} when no feature service is wired
EmptyFeatures == [k \in {} |-> 0]

(***************************************************************************)
(* CacheService (app/services/cache_service.py).  Each operation is one    *)
(* call of the Redis client inside try/except; `fail` says that the client *)
(* call raises.  An operation yields what it returns, whether an exception *)
(* leaves it, and the backend's keyspace after it.                         *)
(***************************************************************************)
None == [kind |-> "none"]

\* get: json.loads(value) if value else None; except Exception: return None
CacheService_get(kv, key, fail) ==
    IF fail
    THEN [raised |-> FALSE, value |-> None]
    ELSE [raised |-> FALSE,
          value |-> IF kv[key].kind = "none" THEN None ELSE kv[key].v]

\* set: setex(key, ttl, json.dumps(value)); return True; except: return False
CacheService_set(kv, key, value, ttl, fail) ==
    IF fail
    THEN [raised |-> FALSE, value |-> FALSE, kv |-> kv]
    ELSE [raised |-> FALSE, value |-> TRUE,
          kv |-> [kv EXCEPT ![key] = [kind |-> "entry", v |-> value, ttl |-> ttl]]]

\* delete: delete(key); return True; except: return False
CacheService_delete(kv, key, fail) ==
    IF fail
    THEN [raised |-> FALSE, value |-> FALSE, kv |-> kv]
    ELSE [raised |-> FALSE, value |-> TRUE, kv |-> [kv EXCEPT ![key] = None]]

\* increment without its try/except
CacheService_increment_uncaught(cnt, key, amount, fail) ==
    IF fail
    THEN [raised |-> TRUE, value |-> 0, cnt |-> cnt]
    ELSE [raised |-> FALSE, value |-> cnt[key] + amount,
          cnt |-> [cnt EXCEPT ![key] = cnt[key] + amount]]

\* increment: return incr(key, amount); except: return 0
CacheService_increment(cnt, key, amount, fail) ==
    IF fail
    THEN [raised |-> FALSE, value |-> 0, cnt |-> cnt]
    ELSE [raised |-> FALSE, value |-> cnt[key] + amount,
          cnt |-> [cnt EXCEPT ![key] = cnt[key] + amount]]

\* get_list: [json.loads(item) for item in lrange(key, 0, -1)]; except: return []
CacheService_get_list(ls, key, fail) ==
    IF fail
    THEN [raised |-> FALSE, value |-> <<>>]
    ELSE [raised |-> FALSE, value |-> ls[key].items]

\* push_list: length = rpush(key, value); expire(key, ttl); return length;
\* except: return 0.  failAt: 0 no failure, 1 rpush raises, 2 expire raises
\* (the item is then already in the list and the list's TTL is not renewed).
CacheService_push_list(ls, key, value, ttl, failAt) ==
    LET pushed == [ls EXCEPT ![key].items = Append(ls[key].items, value)]
    IN CASE failAt = 1 -> [raised |-> FALSE, value |-> 0, ls |-> ls]
         [] failAt = 2 -> [raised |-> FALSE, value |-> 0, ls |-> pushed]
         [] OTHER -> [raised |-> FALSE, value |-> Len(pushed[key].items),
                      ls |-> [pushed EXCEPT ![key].ttl = ttl]]

(***************************************************************************)
(* The /predict route (app/routes/predictions.py)                          *)
(***************************************************************************)
PREDICTION_TTL == 30

\* A request: its memoizer key (rounded coordinates and 5-minute bucket), the
\* straight-line distance between its pickup and dropoff in tenths of a
\* kilometre, and the local hour of its requested time.
Requests ==
    {[key |-> "k1", s10 |-> 1, hour |-> 12],
     [key |-> "k2", s10 |-> 120, hour |-> 8]}

CacheKeys == {r.key : r \in Requests}

\* What a condition adapter does on one call: it returns a summary or raises.
NoData == [kind |-> "none", speed_ratio |-> 100, level |-> "moderate", condition |-> "clear"]
AdapterRaises == [kind |-> "raise", speed_ratio |-> 100, level |-> "moderate", condition |-> "clear"]
TrafficOutcomes ==
    {AdapterRaises,
     [kind |-> "ok", speed_ratio |-> 10, level |-> "severe", condition |-> "clear"]}
WeatherOutcomes ==
    {AdapterRaises,
     [kind |-> "ok", speed_ratio |-> 100, level |-> "moderate", condition |-> "rain"]}

\* the traffic call without its try/except
AbsorbTraffic_uncaught(outcome) == outcome

\* try: traffic_data = await get_traffic_conditions(...) except Exception: (warning)
AbsorbTraffic(outcome) == IF outcome.kind = "raise" THEN NoData ELSE outcome

\* try: weather_data = await get_current_weather(...) except Exception: (warning)
AbsorbWeather(outcome) == IF outcome.kind = "raise" THEN NoData ELSE outcome

\* ModelService.is_ready()
is_ready == model_loaded

\* a route that never takes the cached branch
CacheHit_never(got) == FALSE

\* if cached: (the value CacheService.get returned is truthy)
CacheHit(got) == ~got.raised /\ got.value.kind # "none"

\* _simple_eta_calculation: distance / max(25 * speed_ratio, 5) hours, +-20%.
\* speed is in hundredths of km/h; the quotient is cut to a hundredth of a second.
_simple_eta_calculation(request, traffic_data) ==
    LET ratio == IF traffic_data.kind = "ok" THEN traffic_data.speed_ratio ELSE 100
        speed == Max(BASE_SPEED * ratio, 5 * 100)
        eta == ((request.s10 * 3600 * 1000) \div speed) * 100
        margin == (eta \div 100) * 20
    IN [raised |-> FALSE, eta |-> eta, min |-> eta - margin, max |-> eta + margin,
        path |-> "simple"]

NoPrediction == [raised |-> FALSE, eta |-> 0, min |-> 0, max |-> 0, path |-> "none"]

\* The ETAPredictionResponse built at lines 156-176; eta_seconds = int(eta_seconds),
\* timestamp = datetime.utcnow()
BuildResponse(pr, method) ==
    [kind |-> "response", status |-> 200,
     eta_seconds |-> pr.eta \div TicksPerSecond,
     lower |-> pr.min, upper |-> pr.max,
     prediction_method |-> method, computed_by |-> pr.path, cached |-> FALSE,
     timestamp |-> utcnow]

\* except Exception: raise HTTPException(status_code=500, ...)
Error500 ==
    [kind |-> "error", status |-> 500, eta_seconds |-> 0, lower |-> 0, upper |-> 0,
     prediction_method |-> "none", computed_by |-> "none", cached |-> FALSE,
     timestamp |-> 0]

\* No request was answered yet.
NoResponse ==
    [kind |-> "none", status |-> 0, eta_seconds |-> 0, lower |-> 0, upper |-> 0,
     prediction_method |-> "none", computed_by |-> "none", cached |-> FALSE,
     timestamp |-> 0]

\* a cached branch that writes the entry back with a new TTL
HitStore_refreshed(kv, key) == [kv EXCEPT ![key].ttl = PREDICTION_TTL]

\* The cached branch returns at once: the cache is not written.
HitStore(kv, key) == kv

\* predict_eta, one request from its first line to its return.  The inputs are
\* the request and what each collaborator does when called: cget/cset say
\* whether the Redis call behind cache get/set raises, tr/we/mo are the
\* outcomes of the traffic adapter, the weather adapter and the model.
predict_eta_result(kv, request, cget, tr, we, mo, cset) ==
    LET got == IF wired THEN CacheService_get(kv, request.key, cget)
               ELSE [raised |-> FALSE, value |-> None]
        hit == CacheHit(got)
        traffic_data == IF wired THEN AbsorbTraffic(tr) ELSE NoData
        weather_data == IF wired THEN AbsorbWeather(we) ELSE NoData
        features == IF wired THEN generate_features(request, traffic_data, weather_data)
                    ELSE EmptyFeatures
        use_model == wired /\ is_ready
        pr == IF use_model THEN predict(model_loaded, features, mo)
              ELSE _simple_eta_calculation(request, traffic_data)
        method == IF use_model THEN "ml_model" ELSE "simple_calculation"
        response == BuildResponse(pr, method)
        failed == got.raised \/ traffic_data.kind = "raise" \/ weather_data.kind = "raise"
                  \/ pr.raised
        put == IF wired /\ ~failed
               THEN CacheService_set(kv, request.key, response, PREDICTION_TTL, cset)
               ELSE [raised |-> FALSE, value |-> FALSE, kv |-> kv]
    IN IF hit
       THEN [resp |-> [got.value EXCEPT !.cached = TRUE],
             pred |-> NoPrediction,
             calls |-> {"cache_get"},
             store |-> HitStore(kv, request.key)]
       ELSE [resp |-> IF failed \/ put.raised THEN Error500 ELSE response,
             pred |-> IF failed THEN NoPrediction ELSE pr,
             store |-> put.kv,
             calls |-> (IF wired THEN {"cache_get", "traffic", "weather", "features"} ELSE {})
                         \cup (IF use_model THEN {"engine"} ELSE {"simple"})
                         \cup (IF wired /\ ~failed THEN {"cache_set"} ELSE {})
                         \cup (IF use_model THEN PredictionFailedLog(model_loaded, mo) ELSE {})]

\* One predict_eta request against the memoizer as it stands.
predict_eta(request, cget, tr, we, mo, cset) ==
    LET r == predict_eta_result(store, request, cget, tr, we, mo, cset)
    IN /\ resp' = r.resp
       /\ pred' = r.pred
       /\ store' = r.store
       /\ calls' = r.calls

Predict ==
    \E request \in Requests, cget \in BOOLEAN, cset \in BOOLEAN,
       tr \in TrafficOutcomes, we \in WeatherOutcomes, mo \in ModelOutcomes :
        /\ predict_eta(request, cget, tr, we, mo, cset)
        /\ UNCHANGED <<wired, model_loaded>>
        /\ UNCHANGED train_vars
        /\ UNCHANGED <<adapter_vars, exp_vars, batch_vars, probe_vars>>
        /\ UNCHANGED cache_vars

\* A memoizer entry reaches the end of its TTL and the backend drops it.
Expire ==
    \E k \in CacheKeys :
        /\ store[k].kind # "none"
        /\ store' = [store EXCEPT ![k] = None]
        /\ UNCHANGED <<wired, model_loaded, resp, pred, calls>>
        /\ UNCHANGED train_vars
        /\ UNCHANGED <<adapter_vars, exp_vars, batch_vars, probe_vars>>
        /\ UNCHANGED cache_vars

\* A predict_eta request while the weather adapter and the model answer.
PredictAnswered ==
    \E request \in Requests, cget \in BOOLEAN, cset \in BOOLEAN, tr \in TrafficOutcomes,
       we \in {o \in WeatherOutcomes : o.kind = "ok"},
       mo \in {o \in ModelOutcomes : o.kind = "value" /\ o.seconds >= MIN_ETA_SECONDS} :
        /\ predict_eta(request, cget, tr, we, mo, cset)
        /\ UNCHANGED <<wired, model_loaded>>
        /\ UNCHANGED train_vars
        /\ UNCHANGED <<adapter_vars, exp_vars, batch_vars, probe_vars>>
        /\ UNCHANGED cache_vars

\* Seconds pass: the backend counts every memoizer entry's TTL down and drops
\* an entry when its TTL runs out.
AgeSeconds == {10, 20}
MaxSeconds == 40
MemoAge ==
    \E d \in AgeSeconds :
        /\ utcnow + d <= MaxSeconds
        /\ utcnow' = utcnow + d
        /\ store' = [k \in CacheKeys |->
                        IF store[k].kind = "none" THEN None
                        ELSE IF store[k].ttl > d
                             THEN [store[k] EXCEPT !.ttl = @ - d]
                             ELSE None]
        /\ UNCHANGED <<wired, model_loaded, resp, pred, calls>>
        /\ UNCHANGED train_vars
        /\ UNCHANGED <<adapter_vars, exp_vars, batch_vars>>
        /\ UNCHANGED <<completion_ret, ready_ret, health_kv, calc>>
        /\ UNCHANGED cache_vars

\* The feature bags the engine is handed: those the extractor builds for a
\* range of trips and conditions, and {}.
TrafficLevels == {"low", "moderate", "heavy", "severe"}
FeatureBags ==
    {generate_features([key |-> "k", s10 |-> d, hour |-> h],
                       [kind |-> "ok", speed_ratio |-> 100, level |-> l, condition |-> "clear"],
                       [kind |-> "ok", speed_ratio |-> 100, level |-> l, condition |-> c]) :
        d \in {0, 1, 3, 40, 120}, h \in {3, 8, 12, 18}, l \in TrafficLevels,
        c \in {"clear", "rain"}}
    \cup {EmptyFeatures}

\* What the loaded model does on a direct call.
EngineOutcomes ==
    ModelOutcomes \cup {[kind |-> "value", seconds |-> 0 - 30],
                        [kind |-> "value", seconds |-> 60]}

\* A direct call of ModelService.predict(features).
CallPredict ==
    \E features \in FeatureBags, mo \in EngineOutcomes :
        /\ pred' = predict(model_loaded, features, mo)
        /\ calls' = {"engine"} \cup PredictionFailedLog(model_loaded, mo)
        /\ UNCHANGED <<wired, model_loaded, store, resp>>
        /\ UNCHANGED train_vars
        /\ UNCHANGED <<adapter_vars, exp_vars, batch_vars, probe_vars>>
        /\ UNCHANGED cache_vars

(***************************************************************************)
(* Startup and model loading (app/main.py, ModelService.load_model)        *)
(***************************************************************************)
\* a load_model that clears self.model before it looks for the file
load_model_clearing(loaded, ok) == ok

\* load_model: self.model = joblib.load(path) when the file exists and loads;
\* otherwise it returns False and leaves self.model as it was.
load_model(loaded, ok) == IF ok THEN TRUE ELSE loaded

\* lifespan: build the services, load the model, inject the dependencies.
Lifespan ==
    /\ ~wired
    /\ wired' = TRUE
    /\ \E ok \in BOOLEAN : model_loaded' = load_model(model_loaded, ok)
    /\ UNCHANGED <<store, resp, pred, calls>>
    /\ UNCHANGED train_vars
    /\ UNCHANGED <<adapter_vars, exp_vars, batch_vars, probe_vars>>
    /\ UNCHANGED cache_vars

\* POST /model/reload -> model_service.load_model()
ReloadModel ==
    /\ wired
    /\ \E ok \in BOOLEAN : model_loaded' = load_model(model_loaded, ok)
    /\ UNCHANGED <<wired, store, resp, pred, calls>>
    /\ UNCHANGED train_vars
    /\ UNCHANGED <<adapter_vars, exp_vars, batch_vars, probe_vars>>
    /\ UNCHANGED cache_vars

(***************************************************************************)
(* Training (app/routes/training.py)                                       *)
(***************************************************************************)
MaxRuns == 3
MaxTicks == 3
HOURS_PER_TICK == 12
RETRAIN_INTERVAL_HOURS == 24
MIN_TRAINING_RECORDS == 100

NoTime == 0 - 1
NoResult == [status |-> "none", detail |-> "none", samples |-> 0]
NoMetrics == [kind |-> "none", training_samples |-> 0]

\* a trigger that does not look at the flag
TrainingInProgress_ignored(ts) == FALSE

\* if _training_state["is_training"]: raise HTTPException(status_code=409, ...)
TrainingInProgress(ts) == ts.is_training

\* a check of the interval that does not look at force
RecentlyTrained_unforced(ts, force, now) ==
    /\ ts.last_trained # NoTime
    /\ (now - ts.last_trained) * HOURS_PER_TICK < RETRAIN_INTERVAL_HOURS

\* if not force and last_trained: hours_since_training < retrain_interval_hours
RecentlyTrained(ts, force, now) ==
    /\ ~force
    /\ ts.last_trained # NoTime
    /\ (now - ts.last_trained) * HOURS_PER_TICK < RETRAIN_INTERVAL_HOURS

\* trigger_training: the coroutine has no await, so the event loop runs it from
\* its first line to its return without interleaving any other task.
trigger_training(force) ==
    IF TrainingInProgress(training_state)
    THEN /\ train_resp' = "conflict"
         /\ UNCHANGED <<training_state, tasks, runs>>
    ELSE IF RecentlyTrained(training_state, force, clock)
         THEN /\ train_resp' = "skipped"
              /\ UNCHANGED <<training_state, tasks, runs>>
         ELSE /\ training_state' = [training_state EXCEPT !.is_training = TRUE]
              /\ tasks' = tasks \cup {[id |-> runs + 1, pc |-> "scheduled", n |-> 0]}
              /\ runs' = runs + 1
              /\ train_resp' = "started"

TriggerTraining ==
    \E force \in BOOLEAN :
        /\ runs < MaxRuns
        /\ trigger_training(force)
        /\ UNCHANGED <<completions, model_metrics, clock>>
        /\ UNCHANGED predict_vars
        /\ UNCHANGED <<adapter_vars, exp_vars, batch_vars, probe_vars>>
        /\ UNCHANGED cache_vars

\* get_training_data_stats over a completions list of the given length (the
\* cache service wired): the record count, whether it is ready for training
\* and the count required.
READY_FOR_TRAINING == 1000
get_training_data_stats(total) ==
    IF total = 0
    THEN [total_records |-> 0, ready_for_training |-> FALSE, required_samples |-> 0]
    ELSE [total_records |-> total,
          ready_for_training |-> total >= READY_FOR_TRAINING,
          required_samples |-> READY_FOR_TRAINING]

\* a run whose flag reset is not in a finally clause reached on every path
Finally_missing(ts) == ts

\* finally: _training_state["is_training"] = False
Finally(ts) == [ts EXCEPT !.is_training = FALSE]

\* _run_training up to its first await: without a cache service it raises
\* ValueError, which the except clause records before the finally clause runs.
RunStart(t) ==
    /\ t.pc = "scheduled"
    /\ IF ~wired
       THEN /\ training_state' = Finally([training_state EXCEPT
                    !.last_result = [status |-> "failed", detail |-> "error", samples |-> 0]])
            /\ tasks' = tasks \ {t}
       ELSE /\ tasks' = (tasks \ {t}) \cup {[t EXCEPT !.pc = "get_list"]}
            /\ UNCHANGED training_state
    /\ UNCHANGED <<runs, completions, model_metrics, train_resp, clock>>

\* get_list returns (an empty list when the backend fails); with fewer than
\* 100 records the run records the failure and returns.
RunGotList(t) ==
    /\ t.pc = "get_list"
    /\ \E fail \in BOOLEAN :
         LET n == IF fail THEN 0 ELSE completions
         IN IF n < MIN_TRAINING_RECORDS
            THEN /\ training_state' = Finally([training_state EXCEPT
                         !.last_result = [status |-> "failed", detail |-> "insufficient",
                                          samples |-> n]])
                 /\ tasks' = tasks \ {t}
            ELSE /\ tasks' = (tasks \ {t}) \cup {[t EXCEPT !.pc = "sleep", !.n = n]}
                 /\ UNCHANGED training_state
    /\ UNCHANGED <<runs, completions, model_metrics, train_resp, clock>>

\* await asyncio.sleep(5) returns; the run goes on to write the metrics.
RunSlept(t) ==
    /\ t.pc = "sleep"
    /\ tasks' = (tasks \ {t}) \cup {[t EXCEPT !.pc = "set_metrics"]}
    /\ UNCHANGED <<training_state, runs, completions, model_metrics, train_resp, clock>>

\* cache.set("model:metrics", ...) returns; last_trained and last_result are
\* set and the finally clause runs.
RunFinish(t) ==
    /\ t.pc = "set_metrics"
    /\ \E fail \in BOOLEAN :
         model_metrics' = IF fail THEN model_metrics
                          ELSE [kind |-> "metrics", training_samples |-> t.n]
    /\ training_state' = Finally([training_state EXCEPT
            !.last_trained = clock,
            !.last_result = [status |-> "success", detail |-> "none", samples |-> t.n]])
    /\ tasks' = tasks \ {t}
    /\ UNCHANGED <<runs, completions, train_resp, clock>>

RunStartStep ==
    /\ \E t \in tasks : RunStart(t)
    /\ UNCHANGED predict_vars
    /\ UNCHANGED <<adapter_vars, exp_vars, batch_vars, probe_vars>>
    /\ UNCHANGED cache_vars

RunGotListStep ==
    /\ \E t \in tasks : RunGotList(t)
    /\ UNCHANGED predict_vars
    /\ UNCHANGED <<adapter_vars, exp_vars, batch_vars, probe_vars>>
    /\ UNCHANGED cache_vars

RunSleptStep ==
    /\ \E t \in tasks : RunSlept(t)
    /\ UNCHANGED predict_vars
    /\ UNCHANGED <<adapter_vars, exp_vars, batch_vars, probe_vars>>
    /\ UNCHANGED cache_vars

RunFinishStep ==
    /\ \E t \in tasks : RunFinish(t)
    /\ UNCHANGED predict_vars
    /\ UNCHANGED <<adapter_vars, exp_vars, batch_vars, probe_vars>>
    /\ UNCHANGED cache_vars

\* One step of a background _run_training task.
RunTraining == RunStartStep \/ RunGotListStep \/ RunSleptStep \/ RunFinishStep

\* Time passes.
Tick ==
    /\ clock < MaxTicks
    /\ clock' = clock + 1
    /\ UNCHANGED <<training_state, tasks, runs, completions, model_metrics, train_resp>>
    /\ UNCHANGED predict_vars
    /\ UNCHANGED <<adapter_vars, exp_vars, batch_vars, probe_vars>>
    /\ UNCHANGED cache_vars

(***************************************************************************)
(* The condition adapters (app/services/traffic_service.py,                *)
(* app/services/weather_service.py)                                        *)
(***************************************************************************)
\* A call hands the adapter coordinate objects.  schemas.py defines one
\* coordinate type, Location, with the fields latitude and longitude (LatLng is
\* an alias of it); "lat_lng" stands for an object that has the attributes
\* lat and lng, which is what the adapters read.
CoordShapes == {"latitude_longitude", "lat_lng"}

TRAFFIC_CACHE_TTL == 30
WEATHER_CACHE_TTL == 300

AdapterKeys == {"traffic", "weather"}

TrafficFields == {"speed_ratio", "delay_minutes", "level", "incidents", "congestion"}
WeatherFields == {"condition", "description", "temperature", "humidity",
                  "precipitation", "visibility", "wind_speed"}

NoSummary ==
    [kind |-> "none", fields |-> {}, speed_ratio |-> 0, level |-> "none",
     condition |-> "none"]

\* A traffic summary: speed_ratio in percent.
TrafficSummary(ratio, level) ==
    [kind |-> "summary", fields |-> TrafficFields, speed_ratio |-> ratio,
     level |-> level, condition |-> "none"]

\* A weather summary.
WeatherSummary(condition) ==
    [kind |-> "summary", fields |-> WeatherFields, speed_ratio |-> 0,
     level |-> "none", condition |-> condition]

\* TrafficService._default_traffic
_default_traffic == TrafficSummary(75, "moderate")

\* WeatherService._default_weather
_default_weather == WeatherSummary("clear")

\* TrafficService._speed_ratio_to_level, on a ratio in percent
_speed_ratio_to_level(ratio) ==
    IF ratio > 90 THEN "low"
    ELSE IF ratio > 70 THEN "moderate"
    ELSE IF ratio > 50 THEN "heavy"
    ELSE "severe"

\* TrafficService._estimate_from_patterns: the historical table by weekday,
\* hour and CBD crossing.
_estimate_from_patterns(hour, weekday, is_cbd) ==
    LET base_ratio ==
            IF weekday
            THEN IF 7 <= hour /\ hour <= 9 THEN (IF is_cbd THEN 50 ELSE 70)
                 ELSE IF 17 <= hour /\ hour <= 19 THEN (IF is_cbd THEN 45 ELSE 65)
                 ELSE IF 12 <= hour /\ hour <= 14 THEN 75
                 ELSE IF 22 <= hour \/ hour <= 5 THEN 95
                 ELSE 80
            ELSE IF 11 <= hour /\ hour <= 15 THEN 70 ELSE 85
    IN [raised |-> FALSE, value |-> TrafficSummary(base_ratio, _speed_ratio_to_level(base_ratio))]

\* What the provider does on one request: the client raises (timeout,
\* connection error), answers with a non-200 status, answers 200 with a body
\* the parsing cannot index (routes: [], weather: []), or answers 200 with the
\* travel times freeflow and traffic (traffic provider) or a condition
\* (weather provider).
ProviderFailures ==
    {[kind |-> k, freeflow |-> 0, traffic |-> 0, condition |-> "none"] :
        k \in {"raise", "non200", "malformed"}}

TrafficProviderOutcomes ==
    ProviderFailures
    \cup {[kind |-> "ok", freeflow |-> f, traffic |-> t, condition |-> "none"] :
            f \in {0, 600}, t \in {0, 600, 800, 1000, 1500}}

WeatherProviderOutcomes ==
    ProviderFailures
    \cup {[kind |-> "ok", freeflow |-> 0, traffic |-> 0, condition |-> c] :
            c \in {"clear", "rain"}}

\* a traffic fetch that raises on a non-200 answer
TrafficService_fetch_from_api_raising(api) ==
    CASE api.kind = "raise" -> [raised |-> TRUE, value |-> NoSummary]
      [] api.kind = "non200" -> [raised |-> TRUE, value |-> NoSummary]
      [] api.kind = "malformed" -> [raised |-> TRUE, value |-> NoSummary]
      [] OTHER ->
           IF api.freeflow > 0
           THEN IF api.traffic = 0
                THEN [raised |-> TRUE, value |-> NoSummary]
                ELSE LET level ==
                             IF api.freeflow * 10 > 9 * api.traffic THEN "low"
                             ELSE IF api.freeflow * 10 > 7 * api.traffic THEN "moderate"
                             ELSE IF api.freeflow * 10 > 5 * api.traffic THEN "heavy"
                             ELSE "severe"
                     IN [raised |-> FALSE,
                         value |-> TrafficSummary((api.freeflow * 100) \div api.traffic, level)]
           ELSE [raised |-> FALSE, value |-> TrafficSummary(100, "low")]

\* TrafficService._fetch_from_api.  The level thresholds compare the exact
\* quotient freeflow / traffic; the summary's speed_ratio is cut to a percent.
TrafficService_fetch_from_api(api) ==
    CASE api.kind = "raise" -> [raised |-> TRUE, value |-> NoSummary]
      [] api.kind = "non200" -> [raised |-> FALSE, value |-> _default_traffic]
      [] api.kind = "malformed" -> [raised |-> TRUE, value |-> NoSummary]
      [] OTHER ->
           IF api.freeflow > 0
           THEN IF api.traffic = 0
                THEN [raised |-> TRUE, value |-> NoSummary]
                ELSE LET level ==
                             IF api.freeflow * 10 > 9 * api.traffic THEN "low"
                             ELSE IF api.freeflow * 10 > 7 * api.traffic THEN "moderate"
                             ELSE IF api.freeflow * 10 > 5 * api.traffic THEN "heavy"
                             ELSE "severe"
                     IN [raised |-> FALSE,
                         value |-> TrafficSummary((api.freeflow * 100) \div api.traffic, level)]
           ELSE [raised |-> FALSE, value |-> TrafficSummary(100, "low")]

\* WeatherService._fetch_from_api
WeatherService_fetch_from_api(api) ==
    CASE api.kind = "raise" -> [raised |-> TRUE, value |-> NoSummary]
      [] api.kind = "non200" -> [raised |-> FALSE, value |-> _default_weather]
      [] api.kind = "malformed" -> [raised |-> TRUE, value |-> NoSummary]
      [] OTHER -> [raised |-> FALSE, value |-> WeatherSummary(api.condition)]

\* cache_key = f"traffic:{origin.lat:.4f},..." / f"weather:{location.lat:.2f},...":
\* reading .lat of an object that has no such attribute raises AttributeError.
AdapterCacheKey(name, shape) ==
    IF shape = "lat_lng"
    THEN [raised |-> FALSE, key |-> name]
    ELSE [raised |-> TRUE, key |-> name]

\* an adapter that never takes the cached branch
AdapterCacheHit_never(got) == FALSE

\* if cached: return cached
AdapterCacheHit(got) == got.value.kind # "none"

\* The body shared by get_traffic_conditions and get_current_weather: the key
\* and the cache probe come before the try statement; the fetch or estimate
\* and the cache write are inside it, and its except clause returns the
\* default.  An exception leaves only from the part before the try.
AdapterCall(kv, name, shape, cget, fetched, default, ttl, cset) ==
    LET k == AdapterCacheKey(name, shape)
        got == CacheService_get(kv, name, cget)
        put == CacheService_set(kv, name, fetched.value, ttl, cset)
    IN IF k.raised
       THEN [raised |-> TRUE, value |-> NoSummary, kv |-> kv]
       ELSE IF AdapterCacheHit(got)
            THEN [raised |-> FALSE, value |-> got.value, kv |-> kv]
            ELSE IF fetched.raised
                 THEN [raised |-> FALSE, value |-> default, kv |-> kv]
                 ELSE [raised |-> FALSE, value |-> fetched.value, kv |-> put.kv]

\* TrafficService.get_traffic_conditions(origin, destination)
get_traffic_conditions(kv, shape, cget, has_key, api, hour, weekday, is_cbd, cset) ==
    AdapterCall(kv, "traffic", shape, cget,
                IF has_key THEN TrafficService_fetch_from_api(api)
                ELSE _estimate_from_patterns(hour, weekday, is_cbd),
                _default_traffic, TRAFFIC_CACHE_TTL, cset)

\* WeatherService.get_current_weather(location)
get_current_weather(kv, shape, cget, has_key, api, cset) ==
    AdapterCall(kv, "weather", shape, cget,
                IF has_key THEN WeatherService_fetch_from_api(api)
                ELSE [raised |-> FALSE, value |-> _default_weather],
                _default_weather, WEATHER_CACHE_TTL, cset)

PatternHours == {3, 8, 10, 13, 18, 23}

\* What a traffic call obtains on a miss, by its inputs: the provider's answer
\* with an API key, the estimate for the hour and day without one.
TrafficObtained(c) ==
    IF c.has_key THEN TrafficService_fetch_from_api(c.api)
    ELSE _estimate_from_patterns(c.hour, c.weekday, c.is_cbd)

\* The inputs of a traffic call other than the cache's behaviour.
TrafficCallInputs ==
    {[has_key |-> TRUE, api |-> api, hour |-> 0, weekday |-> TRUE, is_cbd |-> TRUE] :
        api \in TrafficProviderOutcomes}
    \cup {[has_key |-> FALSE, api |-> CHOOSE f \in ProviderFailures : TRUE,
            hour |-> hour, weekday |-> weekday, is_cbd |-> is_cbd] :
            hour \in PatternHours, weekday \in BOOLEAN, is_cbd \in BOOLEAN}

\* One call input for each distinct thing a traffic call can obtain.
TrafficCallKinds ==
    {CHOOSE c \in TrafficCallInputs : TrafficObtained(c) = o :
        o \in {TrafficObtained(c) : c \in TrafficCallInputs}}

\* With an API key the provider is asked and the clock is not read; without
\* one the provider is not asked.
GetTrafficConditions ==
    \E shape \in CoordShapes, cget \in BOOLEAN, has_key \in BOOLEAN, cset \in BOOLEAN :
    \E api \in IF has_key THEN TrafficProviderOutcomes ELSE {CHOOSE f \in ProviderFailures : TRUE},
       hour \in IF has_key THEN {0} ELSE PatternHours,
       weekday \in IF has_key THEN {TRUE} ELSE BOOLEAN,
       is_cbd \in IF has_key THEN {TRUE} ELSE BOOLEAN :
        LET r == get_traffic_conditions(adapter_cache, shape, cget, has_key, api,
                                        hour, weekday, is_cbd, cset)
        IN /\ adapter_ret' = [op |-> "traffic", raised |-> r.raised, value |-> r.value]
           /\ adapter_cache' = r.kv
           /\ UNCHANGED <<predict_vars, train_vars, cache_vars, exp_vars, batch_vars, probe_vars>>

GetCurrentWeather ==
    \E shape \in CoordShapes, cget \in BOOLEAN, has_key \in BOOLEAN, cset \in BOOLEAN,
       api \in WeatherProviderOutcomes :
        LET r == get_current_weather(adapter_cache, shape, cget, has_key, api, cset)
        IN /\ adapter_ret' = [op |-> "weather", raised |-> r.raised, value |-> r.value]
           /\ adapter_cache' = r.kv
           /\ UNCHANGED <<predict_vars, train_vars, cache_vars, exp_vars, batch_vars, probe_vars>>

\* A traffic or weather entry reaches the end of its TTL.
AdapterExpire ==
    \E k \in AdapterKeys :
        /\ adapter_cache[k].kind # "none"
        /\ adapter_cache' = [adapter_cache EXCEPT ![k] = None]
        /\ UNCHANGED adapter_ret
        /\ UNCHANGED <<predict_vars, train_vars, cache_vars, exp_vars, batch_vars, probe_vars>>

AdapterInit ==
    /\ adapter_cache = [k \in AdapterKeys |-> None]
    /\ adapter_ret = [op |-> "none", raised |-> FALSE, value |-> NoSummary]

(***************************************************************************)
(* Experiments (app/routes/experiments.py)                                 *)
(***************************************************************************)
ExpIds == {"e1", "e2"}
NoId == "none"
Users == {"u1", "u2"}
Methods == {"ml_model", "simple_calculation"}

\* ttl=86400 * 30
EXPERIMENT_TTL == 86400 * 30

NoExperiment == [kind |-> "none", status |-> "none", traffic_percentage |-> 0, ended |-> FALSE]

\* An ExperimentConfig as the route stores it.
Experiment(status, traffic_percentage, ended) ==
    [kind |-> "experiment", status |-> status, traffic_percentage |-> traffic_percentage,
     ended |-> ended]

\* The ExperimentConfig bodies a create call is handed: experiment_id is
\* optional, status is left at its default.
ConfigStatuses == {"active"}
TrafficPercentages == {0 - 1, 50, 101}
Configs ==
    [experiment_id : ExpIds \cup {NoId}, traffic_percentage : TrafficPercentages,
     status : ConfigStatuses]

\* The keys of the experiment counters in the cache, f"exp:{id}:{arm}:{metric}":
\* record_experiment_result writes the arms named by PredictionMethod's
\* values, get_experiment_results reads the arms "ml" and "simple".
CounterArms == Methods \cup {"ml", "simple"}
CounterMetrics == {"total", "within_3min"}
ExpCounterKeys == ExpIds \X CounterArms \X CounterMetrics

NoResult200 ==
    [treatment_size |-> 0, control_size |-> 0, treatment_accuracy |-> 0,
     control_accuracy |-> 0, treatment_within |-> 0, control_within |-> 0,
     improvement |-> 0, imp_num |-> 0, imp_den |-> 1,
     significant |-> FALSE, recommendation |-> "none"]

\* The outcome of an experiment operation: the experiment and (for a record)
\* the method it was called with, the HTTP status (200, or the status of the
\* HTTPException raised), the value returned, and for an assignment the user
\* and the hash bucket.
ExpRet(op, id, arm, status, value, bucket, result) ==
    [op |-> op, id |-> id, arg |-> arm, status |-> status, value |-> value,
     bucket |-> bucket, result |-> result]

\* A create_experiment without the check for an id already registered.
create_experiment_overwrites(config, uuid, cset) ==
    LET id == IF config.experiment_id = NoId THEN uuid ELSE config.experiment_id
        entry == Experiment(config.status, config.traffic_percentage, FALSE)
    IN IF config.traffic_percentage < 0 \/ config.traffic_percentage > 100
       THEN /\ exp_ret' = ExpRet("create", id, "none", 400, "percentage", 0, NoResult200)
            /\ UNCHANGED <<experiments, exp_store>>
       ELSE /\ experiments' = [experiments EXCEPT ![id] = entry]
            /\ exp_store' = IF wired
                            THEN CacheService_set(exp_store, id, entry,
                                                  EXPERIMENT_TTL, cset).kv
                            ELSE exp_store
            /\ exp_ret' = ExpRet("create", id, "none", 200, "created", 0, NoResult200)

\* create_experiment(config): uuid is the id uuid4() yields when the config
\* has none; cset says whether the Redis call behind cache.set raises.
create_experiment(config, uuid, cset) ==
    LET id == IF config.experiment_id = NoId THEN uuid ELSE config.experiment_id
        entry == Experiment(config.status, config.traffic_percentage, FALSE)
    IN IF experiments[id].kind # "none"
       THEN /\ exp_ret' = ExpRet("create", id, "none", 400, "exists", 0, NoResult200)
            /\ UNCHANGED <<experiments, exp_store>>
       ELSE IF config.traffic_percentage < 0 \/ config.traffic_percentage > 100
            THEN /\ exp_ret' = ExpRet("create", id, "none", 400, "percentage", 0, NoResult200)
                 /\ UNCHANGED <<experiments, exp_store>>
            ELSE /\ experiments' = [experiments EXCEPT ![id] = entry]
                 /\ exp_store' = IF wired
                                 THEN CacheService_set(exp_store, id, entry,
                                                       EXPERIMENT_TTL, cset).kv
                                 ELSE exp_store
                 /\ exp_ret' = ExpRet("create", id, "none", 200, "created", 0, NoResult200)

\* uuid4() is consulted only for a config without an id, and the cache only
\* for a config that is accepted.
CreateExperiment ==
    \E config \in Configs :
    \E uuid \in IF config.experiment_id = NoId THEN ExpIds ELSE {config.experiment_id},
       cset \in IF wired /\ config.traffic_percentage \in 0..100 THEN BOOLEAN ELSE {FALSE} :
        /\ create_experiment(config, uuid, cset)
        /\ UNCHANGED <<exp_counters, hash_seed>>
        /\ UNCHANGED <<predict_vars, train_vars, cache_vars, adapter_vars, batch_vars, probe_vars>>

\* The ExperimentConfig bodies with the status the client chose: the schema
\* declares status as a plain str with the default "active".
PostedStatuses == {"active", "stopped", "paused"}
PostedConfigs ==
    [experiment_id : ExpIds \cup {NoId}, traffic_percentage : {0, 100},
     status : PostedStatuses]

\* create_experiment on a body that names its own status.
CreateExperimentPosted ==
    \E config \in PostedConfigs :
    \E uuid \in IF config.experiment_id = NoId THEN ExpIds ELSE {config.experiment_id},
       cset \in IF wired THEN BOOLEAN ELSE {FALSE} :
        /\ create_experiment(config, uuid, cset)
        /\ UNCHANGED <<exp_counters, hash_seed>>
        /\ UNCHANGED <<predict_vars, train_vars, cache_vars, adapter_vars, batch_vars, probe_vars>>

\* A stop_experiment that deletes the entry instead of marking it.
stop_experiment_removes(id, cset) ==
    IF experiments[id].kind = "none"
    THEN /\ exp_ret' = ExpRet("stop", id, "none", 404, "not_found", 0, NoResult200)
         /\ UNCHANGED <<experiments, exp_store>>
    ELSE /\ experiments' = [experiments EXCEPT ![id] = NoExperiment]
         /\ exp_store' = IF wired /\ ~cset THEN [exp_store EXCEPT ![id] = None]
                         ELSE exp_store
         /\ exp_ret' = ExpRet("stop", id, "none", 200, "stopped", 0, NoResult200)

\* stop_experiment(experiment_id)
stop_experiment(id, cset) ==
    IF experiments[id].kind = "none"
    THEN /\ exp_ret' = ExpRet("stop", id, "none", 404, "not_found", 0, NoResult200)
         /\ UNCHANGED <<experiments, exp_store>>
    ELSE LET entry == [experiments[id] EXCEPT !.status = "stopped", !.ended = TRUE]
         IN /\ experiments' = [experiments EXCEPT ![id] = entry]
            /\ exp_store' = IF wired
                            THEN CacheService_set(exp_store, id, entry,
                                                  EXPERIMENT_TTL, cset).kv
                            ELSE exp_store
            /\ exp_ret' = ExpRet("stop", id, "none", 200, "stopped", 0, NoResult200)

StopExperiment ==
    \E id \in ExpIds, cset \in IF wired THEN BOOLEAN ELSE {FALSE} :
        /\ stop_experiment(id, cset)
        /\ UNCHANGED <<exp_counters, hash_seed>>
        /\ UNCHANGED <<predict_vars, train_vars, cache_vars, adapter_vars, batch_vars, probe_vars>>

\* A hash that draws on the counters recorded so far.
PyHash_unstable(seed, user_id, experiment_id) ==
    (IF user_id = "u1" THEN 30 ELSE 60) + seed
      + 50 * Cardinality({k \in DOMAIN exp_counters : exp_counters[k] > 0})

\* Python's hash() of the string f"{user_id}:{experiment_id}": a signed
\* integer fixed for the life of the process and salted by the process's hash
\* seed.
HashSeeds == {1, 2}
PyHash(seed, user_id, experiment_id) ==
    LET h == CASE user_id = "u1" /\ experiment_id = "e1" -> 0 - 1
               [] user_id = "u2" /\ experiment_id = "e1" -> 50
               [] user_id = "u1" /\ experiment_id = "e2" -> 250
               [] OTHER -> 0 - 200
    IN IF seed = 1 THEN h ELSE 0 - (h + 77)

\* A remainder with the sign of the dividend, as C's %.
PyMod_truncated(a, b) == IF a < 0 THEN 0 - ((0 - a) % b) ELSE a % b

\* Python's %: the result has the sign of the divisor.
PyMod(a, b) == a % b

\* an assignment that gives treatment to the bucket equal to the percentage
Assignment_inclusive(reg, seed, user_id, id) ==
    IF reg[id].kind = "none" \/ reg[id].status # "active"
    THEN [value |-> "none", bucket |-> 0]
    ELSE LET hash_value == PyMod(PyHash(seed, user_id, id), 100)
         IN [value |-> IF hash_value <= reg[id].traffic_percentage
                       THEN "treatment" ELSE "control",
             bucket |-> hash_value]

\* get_experiment_assignment(user_id, experiment_id): None, "treatment" or
\* "control", with the hash bucket it computed.
Assignment(reg, seed, user_id, id) ==
    IF reg[id].kind = "none" \/ reg[id].status # "active"
    THEN [value |-> "none", bucket |-> 0]
    ELSE LET hash_value == PyMod(PyHash(seed, user_id, id), 100)
         IN [value |-> IF hash_value < reg[id].traffic_percentage
                       THEN "treatment" ELSE "control",
             bucket |-> hash_value]

\* The assignment a user would be given now.
AssignmentNow(user_id, id) == Assignment(experiments, hash_seed, user_id, id)

\* The arm of the counters get_experiment_results reads for a method.
ResultsArm(method) == IF method = "ml_model" THEN "ml" ELSE "simple"

GetExperimentAssignment ==
    \E user_id \in Users, id \in ExpIds :
        LET a == Assignment(experiments, hash_seed, user_id, id)
        IN /\ exp_ret' = ExpRet("assign", id, user_id, 200, a.value, a.bucket, NoResult200)
           /\ UNCHANGED <<experiments, exp_store, exp_counters, hash_seed>>
           /\ UNCHANGED <<predict_vars, train_vars, cache_vars, adapter_vars, batch_vars, probe_vars>>

MaxExpCount == 1
ErrorPairs == {<<600, 600>>, <<600, 780>>, <<781, 600>>}

Abs(x) == IF x < 0 THEN 0 - x ELSE x

\* The sum of the counters under the keys ks.
RECURSIVE CountersSum(_, _)
CountersSum(cnt, ks) ==
    IF ks = {} THEN 0
    ELSE LET k == CHOOSE x \in ks : TRUE
         IN cnt[k] + CountersSum(cnt, ks \ {k})

\* within_3min = abs(actual_seconds - predicted_seconds) / 60 <= 3
within_3min(actual_seconds, predicted_seconds) ==
    Abs(actual_seconds - predicted_seconds) <= 3 * 60

\* a record_experiment_result that turns away experiments that are not active
record_experiment_result_active_only(id, method, actual_seconds, predicted_seconds, f1, f2) ==
    IF experiments[id].kind = "none" \/ experiments[id].status # "active"
    THEN /\ exp_ret' = ExpRet("record", id, method, 404, "not_found", 0, NoResult200)
         /\ UNCHANGED exp_counters
    ELSE LET within == within_3min(actual_seconds, predicted_seconds)
             inc1 == CacheService_increment(exp_counters, <<id, method, "total">>, 1, f1)
             inc2 == CacheService_increment(inc1.cnt, <<id, method, "within_3min">>, 1, f2)
         IN /\ exp_counters' = IF ~wired THEN exp_counters
                               ELSE IF within THEN inc2.cnt ELSE inc1.cnt
            /\ exp_ret' = ExpRet("record", id, method, 200,
                                 IF within THEN "within_3min" ELSE "outside_3min",
                                 0, NoResult200)

\* record_experiment_result(experiment_id, method, actual, predicted): f1 and
\* f2 say whether the Redis call behind each increment raises.
record_experiment_result(id, method, actual_seconds, predicted_seconds, f1, f2) ==
    IF experiments[id].kind = "none"
    THEN /\ exp_ret' = ExpRet("record", id, method, 404, "not_found", 0, NoResult200)
         /\ UNCHANGED exp_counters
    ELSE LET within == within_3min(actual_seconds, predicted_seconds)
             inc1 == CacheService_increment(exp_counters, <<id, method, "total">>, 1, f1)
             inc2 == CacheService_increment(inc1.cnt, <<id, method, "within_3min">>, 1, f2)
         IN /\ exp_counters' = IF ~wired THEN exp_counters
                               ELSE IF within THEN inc2.cnt ELSE inc1.cnt
            /\ exp_ret' = ExpRet("record", id, method, 200,
                                 IF within THEN "within_3min" ELSE "outside_3min",
                                 0, NoResult200)

RecordExperimentResult ==
    \E id \in ExpIds, method \in Methods, pair \in ErrorPairs,
       f1 \in IF wired THEN BOOLEAN ELSE {FALSE}, f2 \in IF wired THEN BOOLEAN ELSE {FALSE} :
        /\ CountersSum(exp_counters, ExpCounterKeys) < MaxExpCount
        /\ record_experiment_result(id, method, pair[1], pair[2], f1, f2)
        /\ UNCHANGED <<experiments, exp_store, hash_seed>>
        /\ UNCHANGED <<predict_vars, train_vars, cache_vars, adapter_vars, batch_vars, probe_vars>>

\* round(n / d, 0) for d > 0, as Python rounds: to the nearest integer, a tie
\* to the even one.
RoundHalfEven(n, d) ==
    LET q == n \div d
        r == n - q * d
    IN IF 2 * r < d THEN q
       ELSE IF 2 * r > d THEN q + 1
       ELSE IF q % 2 = 0 THEN q ELSE q + 1

\* (within / total * 100) if total > 0 else 0, rounded to two decimals: in
\* hundredths of a percent.
Accuracy(within, total) ==
    IF total > 0 THEN RoundHalfEven(within * 100 * 100, total) ELSE 0

MIN_SAMPLES == 100

\* A recommendation that looks at the improvement before the sample size.
_generate_recommendation_unordered(num, den, is_significant, sample_size) ==
    IF num >= 20 * den THEN "roll_out_100"
    ELSE IF sample_size < 200 THEN "insufficient_data"
    ELSE IF ~is_significant THEN "continue_running"
    ELSE IF num >= 10 * den THEN "gradual_rollout"
    ELSE IF num >= 0 THEN "minimal_improvement"
    ELSE "do_not_deploy"

\* _generate_recommendation(improvement, is_significant, sample_size), the
\* improvement given as the fraction num / den of a percent, den > 0.
_generate_recommendation(num, den, is_significant, sample_size) ==
    IF sample_size < 200 THEN "insufficient_data"
    ELSE IF ~is_significant THEN "continue_running"
    ELSE IF num >= 20 * den THEN "roll_out_100"
    ELSE IF num >= 10 * den THEN "gradual_rollout"
    ELSE IF num >= 0 THEN "minimal_improvement"
    ELSE "do_not_deploy"

\* The ExperimentResult get_experiment_results builds from the four counter
\* values it read.  improvement = ml_accuracy - simple_accuracy if both are
\* above 0, else 0; it is kept exact as imp_num / imp_den percent.
ExperimentResult(ml_total, ml_within, simple_total, simple_within) ==
    LET both == ml_total > 0 /\ ml_within > 0 /\ simple_total > 0 /\ simple_within > 0
        num == IF both THEN (ml_within * simple_total - simple_within * ml_total) * 100 ELSE 0
        den == IF both THEN ml_total * simple_total ELSE 1
        is_significant == ml_total >= MIN_SAMPLES /\ simple_total >= MIN_SAMPLES
    IN [treatment_size |-> ml_total, control_size |-> simple_total,
        treatment_accuracy |-> Accuracy(ml_within, ml_total),
        control_accuracy |-> Accuracy(simple_within, simple_total),
        treatment_within |-> ml_within, control_within |-> simple_within,
        improvement |-> RoundHalfEven(num * 100, den),
        imp_num |-> num, imp_den |-> den,
        significant |-> is_significant,
        recommendation |-> _generate_recommendation(num, den, is_significant,
                                                    ml_total + simple_total)]

\* await cache_service.get(key) or 0
ReadCounter(id, arm, metric, failed) ==
    IF ~wired \/ <<arm, metric>> \in failed THEN 0 ELSE exp_counters[<<id, arm, metric>>]

\* The cache reads whose Redis call raises during one results request.
CounterReads == {"ml", "simple"} \X CounterMetrics
GetFailures == {{}, {<<"ml", "total">>}, {<<"simple", "within_3min">>}, CounterReads}

\* get_experiment_results(experiment_id)
get_experiment_results(id, failed) ==
    IF experiments[id].kind = "none"
    THEN exp_ret' = ExpRet("results", id, "none", 404, "not_found", 0, NoResult200)
    ELSE exp_ret' = ExpRet("results", id, "none", 200, experiments[id].status, 0,
                           ExperimentResult(ReadCounter(id, "ml", "total", failed),
                                            ReadCounter(id, "ml", "within_3min", failed),
                                            ReadCounter(id, "simple", "total", failed),
                                            ReadCounter(id, "simple", "within_3min", failed)))

GetExperimentResults ==
    \E id \in ExpIds, failed \in IF wired THEN GetFailures ELSE {{}} :
        /\ get_experiment_results(id, failed)
        /\ UNCHANGED <<experiments, exp_store, exp_counters, hash_seed>>
        /\ UNCHANGED <<predict_vars, train_vars, cache_vars, adapter_vars, batch_vars, probe_vars>>

ExpInitOf(seeds) ==
    /\ experiments = [id \in ExpIds |-> NoExperiment]
    /\ exp_store = [id \in ExpIds |-> None]
    /\ exp_counters = [k \in ExpCounterKeys |-> 0]
    /\ exp_ret = ExpRet("none", NoId, "none", 0, "none", 0, NoResult200)
    /\ hash_seed \in seeds

ExpInit == ExpInitOf({1})

(***************************************************************************)
(* The /batch-predict route (app/routes/predictions.py)                    *)
(***************************************************************************)
MAX_BATCH_SIZE == 50
MaxBatchLen == 2

\* One request of a batch with what each collaborator does while it is
\* served; unexpected says that a statement of predict_eta's try that no inner
\* handler covers raises (the cache key, the validation of a cached entry),
\* which lines 201-204 turn into HTTPException(500).
BatchItem(request, cget, tr, we, mo, cset, unexpected) ==
    [request |-> request, cget |-> cget, tr |-> tr, we |-> we, mo |-> mo, cset |-> cset,
     unexpected |-> unexpected]

ItemOk ==
    BatchItem([key |-> "k1", s10 |-> 1, hour |-> 12], FALSE,
              [kind |-> "ok", speed_ratio |-> 10, level |-> "severe", condition |-> "clear"],
              [kind |-> "ok", speed_ratio |-> 100, level |-> "moderate", condition |-> "rain"],
              [kind |-> "value", seconds |-> 900], FALSE, FALSE)
ItemDegraded ==
    BatchItem([key |-> "k2", s10 |-> 120, hour |-> 8], TRUE, AdapterRaises, AdapterRaises,
              [kind |-> "raise", seconds |-> 0], TRUE, FALSE)
ItemFails ==
    BatchItem([key |-> "k1", s10 |-> 1, hour |-> 12], FALSE, AdapterRaises, AdapterRaises,
              [kind |-> "value", seconds |-> 900], FALSE, TRUE)
BatchItems == {ItemOk, ItemDegraded, ItemFails}

\* The request lists: every list of up to MaxBatchLen items, a list of
\* exactly MAX_BATCH_SIZE and one of MAX_BATCH_SIZE + 1.
Batches ==
    UNION {[1..n -> BatchItems] : n \in 0..MaxBatchLen}
      \cup {[i \in 1..MAX_BATCH_SIZE |-> IF i = 7 THEN ItemFails ELSE ItemOk],
            [i \in 1..(MAX_BATCH_SIZE + 1) |-> ItemOk]}

\* An element of the list batch_predict_eta returns; display_text is "range"
\* for the text _format_display_text builds from the interval.
BatchEntry(response, display_text) ==
    [response |-> response, display_text |-> display_text]

\* The entry appended for a request whose predict_eta raised HTTPException.
UnableEntry ==
    BatchEntry([kind |-> "response", status |-> 200, eta_seconds |-> 0, lower |-> 0,
                upper |-> 0, prediction_method |-> "simple_calculation",
                computed_by |-> "none", cached |-> FALSE],
               "Unable to calculate ETA")

\* await predict_eta(request, dependencies) for one item of the batch.
ItemResult(kv, item) ==
    IF item.unexpected
    THEN [resp |-> Error500, pred |-> NoPrediction, store |-> kv, calls |-> {}]
    ELSE predict_eta_result(kv, item.request, item.cget, item.tr, item.we, item.mo,
                            item.cset)

\* A loop body without its except clause.
CatchHTTPException_missing(r) ==
    IF r.resp.status = 500
    THEN [raised |-> TRUE, entry |-> UnableEntry]
    ELSE [raised |-> FALSE, entry |-> BatchEntry(r.resp, "range")]

\* try: results.append(await predict_eta(...)) except HTTPException:
\* results.append(the zero entry)
CatchHTTPException(r) ==
    IF r.resp.status = 500
    THEN [raised |-> FALSE, entry |-> UnableEntry]
    ELSE [raised |-> FALSE, entry |-> BatchEntry(r.resp, "range")]

\* The for loop over the requests, from the state acc.
RECURSIVE BatchRun(_, _)
BatchRun(acc, batch) ==
    IF batch = <<>> \/ acc.raised THEN acc
    ELSE LET r == ItemResult(acc.store, Head(batch))
             c == CatchHTTPException(r)
         IN BatchRun([raised |-> c.raised,
                      results |-> IF c.raised THEN acc.results
                                  ELSE Append(acc.results, c.entry),
                      store |-> r.store, resp |-> r.resp, pred |-> r.pred,
                      calls |-> r.calls],
                     Tail(batch))

\* batch_predict_eta(requests)
batch_predict_eta(batch) ==
    IF Len(batch) > MAX_BATCH_SIZE
    THEN /\ batch_ret' = [op |-> "batch", status |-> 400, n |-> Len(batch), results |-> <<>>]
         /\ UNCHANGED <<store, resp, pred, calls>>
    ELSE LET run == BatchRun([raised |-> FALSE, results |-> <<>>, store |-> store,
                              resp |-> resp, pred |-> pred, calls |-> calls], batch)
         IN /\ batch_ret' = [op |-> "batch",
                             status |-> IF run.raised THEN 500 ELSE 200,
                             n |-> Len(batch),
                             results |-> IF run.raised THEN <<>> ELSE run.results]
            /\ store' = run.store
            /\ resp' = run.resp
            /\ pred' = run.pred
            /\ calls' = run.calls

BatchPredict ==
    \E batch \in Batches :
        /\ batch_predict_eta(batch)
        /\ UNCHANGED <<wired, model_loaded>>
        /\ UNCHANGED <<train_vars, cache_vars, adapter_vars, exp_vars, probe_vars>>

BatchInit == batch_ret = [op |-> "none", status |-> 0, n |-> 0, results |-> <<>>]

(***************************************************************************)
(* Requests and calculations observed through their results                *)
(***************************************************************************)
NoCalc == [op |-> "none"]

ProbeInit ==
    /\ completion_ret = [op |-> "none"]
    /\ ready_ret = [op |-> "none"]
    /\ health_kv = [k \in {"health:check"} |-> None]
    /\ utcnow = 0
    /\ calc = NoCalc

(***************************************************************************)
(* CacheService called directly, as the routes and adapters call it        *)
(***************************************************************************)
MaxCount == 2
MaxListLen == 2

CounterKeys == {"eta:metrics:total_predictions", "eta:metrics:within_3min"}
ListKeys == {"eta:training:completions"}
ListItems == {1, 2}
TTLs == {PREDICTION_TTL}

\* The JSON values written: responses of the simple calculation.
SampleValues == {BuildResponse(_simple_eta_calculation(r, NoData), "simple_calculation") :
                    r \in Requests}

CacheGet ==
    \E key \in CacheKeys, fail \in BOOLEAN :
        LET r == CacheService_get(store, key, fail)
        IN /\ cache_ret' = [op |-> "get", failed |-> fail, raised |-> r.raised,
                            value |-> r.value]
           /\ UNCHANGED <<store, counters, lists>>
           /\ UNCHANGED <<wired, model_loaded, resp, pred, calls>>
           /\ UNCHANGED train_vars
           /\ UNCHANGED <<adapter_vars, exp_vars, batch_vars, probe_vars>>

CacheSet ==
    \E key \in CacheKeys, value \in SampleValues, ttl \in TTLs, fail \in BOOLEAN :
        LET r == CacheService_set(store, key, value, ttl, fail)
        IN /\ cache_ret' = [op |-> "set", failed |-> fail, raised |-> r.raised,
                            value |-> r.value]
           /\ store' = r.kv
           /\ UNCHANGED <<counters, lists>>
           /\ UNCHANGED <<wired, model_loaded, resp, pred, calls>>
           /\ UNCHANGED train_vars
           /\ UNCHANGED <<adapter_vars, exp_vars, batch_vars, probe_vars>>

CacheDelete ==
    \E key \in CacheKeys, fail \in BOOLEAN :
        LET r == CacheService_delete(store, key, fail)
        IN /\ cache_ret' = [op |-> "delete", failed |-> fail, raised |-> r.raised,
                            value |-> r.value]
           /\ store' = r.kv
           /\ UNCHANGED <<counters, lists>>
           /\ UNCHANGED <<wired, model_loaded, resp, pred, calls>>
           /\ UNCHANGED train_vars
           /\ UNCHANGED <<adapter_vars, exp_vars, batch_vars, probe_vars>>

CacheIncrement ==
    \E key \in CounterKeys, fail \in BOOLEAN :
        /\ counters[key] < MaxCount
        /\ LET r == CacheService_increment(counters, key, 1, fail)
           IN /\ cache_ret' = [op |-> "increment", failed |-> fail, raised |-> r.raised,
                               value |-> r.value]
              /\ counters' = r.cnt
              /\ UNCHANGED <<store, lists>>
              /\ UNCHANGED <<wired, model_loaded, resp, pred, calls>>
              /\ UNCHANGED train_vars
              /\ UNCHANGED <<adapter_vars, exp_vars, batch_vars, probe_vars>>

CacheGetList ==
    \E key \in ListKeys, fail \in BOOLEAN :
        LET r == CacheService_get_list(lists, key, fail)
        IN /\ cache_ret' = [op |-> "get_list", failed |-> fail, raised |-> r.raised,
                            value |-> r.value]
           /\ UNCHANGED <<store, counters, lists>>
           /\ UNCHANGED <<wired, model_loaded, resp, pred, calls>>
           /\ UNCHANGED train_vars
           /\ UNCHANGED <<adapter_vars, exp_vars, batch_vars, probe_vars>>

CachePushList ==
    \E key \in ListKeys, item \in ListItems, failAt \in {0, 1, 2} :
        /\ Len(lists[key].items) < MaxListLen
        /\ LET r == CacheService_push_list(lists, key, item, PREDICTION_TTL, failAt)
           IN /\ cache_ret' = [op |-> "push_list", failed |-> failAt # 0,
                               raised |-> r.raised, value |-> r.value]
              /\ lists' = r.ls
              /\ UNCHANGED <<store, counters>>
              /\ UNCHANGED <<wired, model_loaded, resp, pred, calls>>
              /\ UNCHANGED train_vars
              /\ UNCHANGED <<adapter_vars, exp_vars, batch_vars, probe_vars>>

CacheOp ==
    CacheGet \/ CacheSet \/ CacheDelete \/ CacheIncrement \/ CacheGetList \/ CachePushList

(***************************************************************************)
(* The /record-completion route (app/routes/predictions.py)                *)
(***************************************************************************)
COMPLETIONS_TTL == 86400 * 7
CompletionsKey == "eta:training:completions"

\* The training_record dict: the trip and whether its error is within 3 minutes.
TrainingRecord(trip_id, actual_seconds, predicted_seconds) ==
    [trip_id |-> trip_id,
     within_3_min |-> Abs(actual_seconds - predicted_seconds) <= 3 * 60]

\* record_trip_completion(record): failAt is where push_list's backend calls
\* fail (0 nowhere, 1 at rpush, 2 at expire), f1 and f2 say whether the Redis
\* call behind each increment raises.
record_trip_completion(trip_id, actual_seconds, predicted_seconds, failAt, f1, f2) ==
    LET training_record == TrainingRecord(trip_id, actual_seconds, predicted_seconds)
        pushed == CacheService_push_list(lists, CompletionsKey, training_record,
                                         COMPLETIONS_TTL, failAt)
        inc1 == CacheService_increment(counters, "eta:metrics:total_predictions", 1, f1)
        inc2 == CacheService_increment(inc1.cnt, "eta:metrics:within_3min", 1, f2)
    IN /\ lists' = IF wired THEN pushed.ls ELSE lists
       /\ counters' = IF ~wired THEN counters
                      ELSE IF training_record.within_3_min THEN inc2.cnt ELSE inc1.cnt
       /\ completion_ret' = [op |-> "record", status |-> "recorded", trip_id |-> trip_id,
                             within_3_min |-> training_record.within_3_min]

RecordTripCompletion ==
    \E trip_id \in ListItems, pair \in ErrorPairs, failAt \in IF wired THEN {0, 1, 2} ELSE {0},
       f1 \in IF wired THEN BOOLEAN ELSE {FALSE}, f2 \in IF wired THEN BOOLEAN ELSE {FALSE} :
        /\ Len(lists[CompletionsKey].items) < MaxListLen
        /\ \A k \in CounterKeys : counters[k] < MaxCount
        /\ record_trip_completion(trip_id, pair[1], pair[2], failAt, f1, f2)
        /\ UNCHANGED <<cache_ret, ready_ret, health_kv, utcnow, calc>>
        /\ UNCHANGED <<predict_vars, train_vars, adapter_vars, exp_vars, batch_vars>>

\* Days pass with no append: the backend counts the list's TTL down and drops
\* the whole list when it runs out; a list without a TTL (ttl = 0) stays.
AgeDays == {1, 6}
CompletionsAge ==
    \E days \in AgeDays :
        LET l == lists[CompletionsKey]
        IN /\ l.ttl > 0
           /\ lists' = [lists EXCEPT ![CompletionsKey] =
                          IF l.ttl > days * 86400
                          THEN [l EXCEPT !.ttl = l.ttl - days * 86400]
                          ELSE [items |-> <<>>, ttl |-> 0]]
           /\ UNCHANGED <<counters, cache_ret, probe_vars>>
           /\ UNCHANGED <<predict_vars, train_vars, adapter_vars, exp_vars, batch_vars>>

(***************************************************************************)
(* The memoizer key (app/routes/predictions.py, _generate_cache_key)       *)
(***************************************************************************)
\* round(x, 4) of a coordinate given in hundred-thousandths of a degree: a
\* float with the sign of x (round(-0.00001, 4) is -0.0) and a magnitude in
\* ten-thousandths.  The f-string prints the sign of a negative zero.
Round4(x5) == [neg |-> x5 < 0, mag |-> RoundHalfEven(Abs(x5), 10)]

\* The number a rounded coordinate stands for, in ten-thousandths: -0.0 = 0.0.
Round4Value(x5) == IF x5 < 0 THEN 0 - Round4(x5).mag ELSE Round4(x5).mag

\* time.replace(minute=time.minute // 5 * 5, second=0, microsecond=0).isoformat():
\* date, hour, the minute cut to a multiple of 5 and, for an aware datetime,
\* its UTC offset.
TimeBucket(time) ==
    [hour |-> time.hour, minute |-> (time.minute \div 5) * 5, tz |-> time.tz]

\* The 5-minute interval of the day an instant lies in; a naive datetime is
\* taken as UTC, as utcnow() gives it.
UtcOffsetHours(tz) == IF tz = "+02:00" THEN 2 ELSE 0
InstantBucket(time) == ((time.hour - UtcOffsetHours(time.tz)) * 60 + time.minute) \div 5

\* f"eta:{pickup_lat},{pickup_lng}:{dropoff_lat},{dropoff_lng}:{time_bucket.isoformat()}"
_generate_cache_key(request) ==
    <<Round4(request.pickup_lat), Round4(request.pickup_lng),
      Round4(request.dropoff_lat), Round4(request.dropoff_lng),
      TimeBucket(request.time)>>

\* Requests around latitude 0 and around one dropoff, at times on both sides
\* of a 5-minute boundary; requested_time or utcnow() is the time.  No
\* coordinate lies on a decimal tie, where round() follows the binary value.
KeyRequests ==
    [pickup_lat : {0 - 1, 1, 12}, pickup_lng : {3682190},
     dropoff_lat : {0 - 128640}, dropoff_lng : {3681716, 3681724},
     time : [hour : {10, 12}, minute : {2, 4, 5}, tz : {"naive", "+02:00"}]]

\* The key of two requests, the first one's generated twice; the function keeps
\* no state, so one application per behaviour covers it.
GenerateCacheKey ==
    /\ calc = NoCalc
    /\ \E a \in KeyRequests, b \in KeyRequests :
           /\ calc' = [op |-> "cache_key", a |-> a, b |-> b,
                       key_a |-> _generate_cache_key(a), key_b |-> _generate_cache_key(b),
                       key_a_again |-> _generate_cache_key(a)]
           /\ UNCHANGED <<completion_ret, ready_ret, health_kv, utcnow>>
           /\ UNCHANGED <<predict_vars, train_vars, cache_vars, adapter_vars, exp_vars,
                          batch_vars>>

(***************************************************************************)
(* The /health/ready route (app/routes/health.py)                          *)
(***************************************************************************)
HEALTH_TTL == 10
HealthKey == "health:check"

\* The string "ok" as json.dumps stores it and json.loads gives it back.
OkValue == [kind |-> "str", text |-> "ok"]

\* "ready" if is_ready else "not_ready", a mutant with `and` for `or`
ReadyStatus_both(cache_connected, loaded) ==
    IF cache_connected /\ loaded THEN "ready" ELSE "not_ready"

\* is_ready = checks["cache_connected"] or checks["model_loaded"];
\* "ready" if is_ready else "not_ready"
ReadyStatus(cache_connected, loaded) ==
    IF cache_connected \/ loaded THEN "ready" ELSE "not_ready"

\* readiness_check(): fs and fg say whether the Redis call behind the probe's
\* set and get raises.  Without injected services both checks stay False.
readiness_check(fs, fg) ==
    LET loaded == IF wired THEN is_ready ELSE FALSE
        written == CacheService_set(health_kv, HealthKey, OkValue, HEALTH_TTL, fs)
        got == CacheService_get(written.kv, HealthKey, fg)
        \* try: ... except Exception: checks["cache_connected"] = False
        cache_connected == IF ~wired \/ written.raised \/ got.raised THEN FALSE
                           ELSE got.value = OkValue
    IN /\ health_kv' = IF wired THEN written.kv ELSE health_kv
       /\ ready_ret' = [op |-> "ready", raised |-> FALSE,
                        status |-> ReadyStatus(cache_connected, loaded),
                        model_loaded |-> loaded, cache_connected |-> cache_connected,
                        set_failed |-> fs, get_failed |-> fg]

ReadinessCheck ==
    \E fs \in IF wired THEN BOOLEAN ELSE {FALSE}, fg \in IF wired THEN BOOLEAN ELSE {FALSE} :
        /\ readiness_check(fs, fg)
        /\ UNCHANGED <<completion_ret, utcnow, calc>>
        /\ UNCHANGED <<predict_vars, train_vars, cache_vars, adapter_vars, exp_vars,
                       batch_vars>>

\* A second passes: the backend counts the probe entry's TTL down and drops
\* the entry when it runs out.
HealthAge ==
    /\ health_kv[HealthKey].kind # "none"
    /\ health_kv' = [health_kv EXCEPT ![HealthKey] =
                       IF health_kv[HealthKey].ttl > 1
                       THEN [health_kv[HealthKey] EXCEPT !.ttl = @ - 1]
                       ELSE None]
    /\ UNCHANGED <<completion_ret, ready_ret, utcnow, calc>>
    /\ UNCHANGED <<predict_vars, train_vars, cache_vars, adapter_vars, exp_vars,
                   batch_vars>>

(***************************************************************************)
(* Calculations applied to chosen inputs                                   *)
(***************************************************************************)
\* The place of a traffic level, as _speed_ratio_to_level names the levels,
\* in their rising order.
LevelRank(level) ==
    CASE level = "low" -> 0
      [] level = "moderate" -> 1
      [] level = "heavy" -> 2
      [] OTHER -> 3

\* A feature bag with its traffic level set to the encoding of a level name.
WithTrafficLevel(features, level) ==
    Merge(features, [k \in {"traffic_level_encoded"} |-> _encode_traffic_level(level)])

\* _fallback_prediction on one feature bag under two traffic levels.
ApplyFallbackPair ==
    /\ calc = NoCalc
    /\ \E features \in FeatureBags, level_a \in TrafficLevels, level_b \in TrafficLevels :
           /\ calc' = [op |-> "fallback_pair", features |-> features,
                       level_a |-> level_a, level_b |-> level_b,
                       a |-> _fallback_prediction(WithTrafficLevel(features, level_a)),
                       b |-> _fallback_prediction(WithTrafficLevel(features, level_b))]
           /\ UNCHANGED <<completion_ret, ready_ret, health_kv, utcnow>>
           /\ UNCHANGED <<predict_vars, train_vars, cache_vars, adapter_vars, exp_vars,
                          batch_vars>>

\* _calculate_uncertainty on one feature bag.
ApplyUncertainty ==
    /\ calc = NoCalc
    /\ \E features \in FeatureBags :
           /\ calc' = [op |-> "uncertainty", features |-> features,
                       uncertainty |-> _calculate_uncertainty(features)]
           /\ UNCHANGED <<completion_ret, ready_ret, health_kv, utcnow>>
           /\ UNCHANGED <<predict_vars, train_vars, cache_vars, adapter_vars, exp_vars,
                          batch_vars>>

\* The traffic summaries a trip is predicted under: none, and one for each
\* level with a speed ratio (percent) of that level.
TripTraffic ==
    {NoData,
     [kind |-> "ok", speed_ratio |-> 100, level |-> "low", condition |-> "clear"],
     [kind |-> "ok", speed_ratio |-> 75, level |-> "moderate", condition |-> "clear"],
     [kind |-> "ok", speed_ratio |-> 60, level |-> "heavy", condition |-> "clear"],
     [kind |-> "ok", speed_ratio |-> 10, level |-> "severe", condition |-> "clear"]}

\* get_experiment_assignment for one pair in two runs of the service: the same
\* registry entry, each run with the hash seed its interpreter started with.
ApplyTwoRuns ==
    /\ calc = NoCalc
    /\ \E user_id \in Users, id \in ExpIds, traffic_percentage \in {0, 25, 50, 100},
          status \in {"active", "stopped"}, seed1 \in HashSeeds, seed2 \in HashSeeds :
           LET reg == [i \in ExpIds |-> IF i = id
                                        THEN Experiment(status, traffic_percentage, FALSE)
                                        ELSE NoExperiment]
           IN /\ calc' = [op |-> "two_runs", user_id |-> user_id, experiment_id |-> id,
                          experiment |-> reg[id], seed1 |-> seed1, seed2 |-> seed2,
                          first |-> Assignment(reg, seed1, user_id, id),
                          second |-> Assignment(reg, seed2, user_id, id)]
              /\ UNCHANGED <<completion_ret, ready_ret, health_kv, utcnow>>
              /\ UNCHANGED <<predict_vars, train_vars, cache_vars, adapter_vars, exp_vars, batch_vars>>

\* One trip with no model available, as the route computes it
\* (_simple_eta_calculation) and as ModelService computes it
\* (_fallback_prediction on the features of the same trip and conditions).
ApplyNoModelPair ==
    /\ calc = NoCalc
    /\ \E s10 \in {0, 1, 3, 40, 120}, hour \in {3, 8, 12, 18}, traffic_data \in TripTraffic,
          weather_data \in WeatherOutcomes :
           LET request == [key |-> "k", s10 |-> s10, hour |-> hour]
           IN /\ calc' = [op |-> "no_model_pair", request |-> request,
                          traffic_data |-> traffic_data,
                          weather_data |-> weather_data,
                          simple |-> _simple_eta_calculation(request, traffic_data),
                          fallback |-> _fallback_prediction(
                              generate_features(request, traffic_data,
                                                AbsorbWeather(weather_data)))]
              /\ UNCHANGED <<completion_ret, ready_ret, health_kv, utcnow>>
              /\ UNCHANGED <<predict_vars, train_vars, cache_vars, adapter_vars, exp_vars,
                             batch_vars>>

(***************************************************************************)
(* The weather impact multiplier (app/services/weather_service.py)         *)
(*                                                                         *)
(* Texts are sequences of characters, precipitation is in tenths of a      *)
(* millimetre, visibility in tenths of a kilometre, and a multiplier in    *)
(* ten-thousandths, which holds every product of the factors exactly.      *)
(***************************************************************************)
UpperLetters == <<"A", "B", "C", "D", "E", "F", "G", "H", "I", "J", "K", "L", "M",
                  "N", "O", "P", "Q", "R", "S", "T", "U", "V", "W", "X", "Y", "Z">>
LowerLetters == <<"a", "b", "c", "d", "e", "f", "g", "h", "i", "j", "k", "l", "m",
                  "n", "o", "p", "q", "r", "s", "t", "u", "v", "w", "x", "y", "z">>

\* str.lower() on one character
LowerChar(c) ==
    IF \E i \in 1..Len(UpperLetters) : UpperLetters[i] = c
    THEN LowerLetters[CHOOSE i \in 1..Len(UpperLetters) : UpperLetters[i] = c]
    ELSE c

\* str.lower()
Lower(text) == [i \in 1..Len(text) |-> LowerChar(text[i])]

\* sub in text
Contains(sub, text) ==
    \E i \in 0..(Len(text) - Len(sub)) : SubSeq(text, i + 1, i + Len(sub)) = sub

\* weather.get(key, default)
WeatherGet(weather, key, default) ==
    IF key \in DOMAIN weather THEN weather[key] ELSE default

\* The flat multiplier a mutant gives to heavy rain.
get_weather_impact_multiplier_flat(weather) ==
    LET condition == Lower(WeatherGet(weather, "condition", <<"c", "l", "e", "a", "r">>))
        visibility == WeatherGet(weather, "visibility", 100)
        rain == IF Contains(<<"r", "a", "i", "n">>, condition) THEN (10000 * 115) \div 100
                ELSE IF Contains(<<"s", "t", "o", "r", "m">>, condition)
                        \/ Contains(<<"t", "h", "u", "n", "d", "e", "r">>, condition)
                     THEN (10000 * 15) \div 10
                     ELSE 10000
    IN IF visibility < 10 THEN (rain * 13) \div 10
       ELSE IF visibility < 30 THEN (rain * 11) \div 10
       ELSE rain

\* WeatherService.get_weather_impact_multiplier(weather)
get_weather_impact_multiplier(weather) ==
    LET condition == Lower(WeatherGet(weather, "condition", <<"c", "l", "e", "a", "r">>))
        precipitation == WeatherGet(weather, "precipitation", 0)
        visibility == WeatherGet(weather, "visibility", 100)
        rain == IF Contains(<<"r", "a", "i", "n">>, condition)
                THEN IF precipitation > 100 THEN (10000 * 13) \div 10
                     ELSE (10000 * 115) \div 100
                ELSE IF Contains(<<"s", "t", "o", "r", "m">>, condition)
                        \/ Contains(<<"t", "h", "u", "n", "d", "e", "r">>, condition)
                     THEN (10000 * 15) \div 10
                     ELSE 10000
    IN IF visibility < 10 THEN (rain * 13) \div 10
       ELSE IF visibility < 30 THEN (rain * 11) \div 10
       ELSE rain

\* The condition texts a provider's "main" field gives after lower() in
\* _fetch_from_api, and texts in other cases as a caller may pass them.
ConditionTexts ==
    {<<"c", "l", "e", "a", "r">>, <<"C", "l", "e", "a", "r">>,
     <<"r", "a", "i", "n">>, <<"R", "a", "i", "n">>,
     <<"l", "i", "g", "h", "t", " ", "r", "a", "i", "n">>,
     <<"t", "h", "u", "n", "d", "e", "r", "s", "t", "o", "r", "m">>,
     <<"c", "l", "o", "u", "d", "s">>}

\* Precipitation of 0, 5, 10, 10.1 and 15 mm; visibility of 0.5, 2, 3 and 10 km.
Precipitations == {0, 50, 100, 101, 150}
Visibilities == {5, 20, 30, 100}

\* Weather summaries: any subset of the three keys the multiplier reads.
Weathers ==
    {[k \in keys |-> [condition |-> c, precipitation |-> p, visibility |-> v][k]] :
        c \in ConditionTexts, p \in Precipitations, v \in Visibilities,
        keys \in SUBSET {"condition", "precipitation", "visibility"}}

\* get_weather_impact_multiplier on two weather summaries.
ApplyWeatherImpact ==
    /\ calc = NoCalc
    /\ \E a \in Weathers, b \in Weathers :
           /\ calc' = [op |-> "weather_impact", a |-> a, b |-> b,
                       multiplier_a |-> get_weather_impact_multiplier(a),
                       multiplier_b |-> get_weather_impact_multiplier(b)]
           /\ UNCHANGED <<completion_ret, ready_ret, health_kv, utcnow>>
           /\ UNCHANGED <<predict_vars, train_vars, cache_vars, adapter_vars, exp_vars,
                          batch_vars>>

(***************************************************************************)
(* Specifications                                                          *)
(***************************************************************************)
InitialCompletions == {0, 99, 100, 1000}

Init ==
    /\ wired = FALSE
    /\ model_loaded = FALSE
    /\ store = [k \in CacheKeys |-> None]
    /\ resp = NoResponse
    /\ pred = NoPrediction
    /\ calls = {}
    /\ training_state = [is_training |-> FALSE, last_trained |-> NoTime,
                          last_result |-> NoResult]
    /\ tasks = {}
    /\ runs = 0
    /\ completions = 0
    /\ model_metrics = NoMetrics
    /\ train_resp = "none"
    /\ clock = 0
    /\ counters = [k \in CounterKeys |-> 0]
    /\ lists = [k \in ListKeys |-> [items |-> <<>>, ttl |-> 0]]
    /\ cache_ret = [op |-> "none", failed |-> FALSE, raised |-> FALSE, value |-> 0]
    /\ AdapterInit
    /\ ExpInit
    /\ BatchInit
    /\ ProbeInit

\* The prediction pipeline.
Next == Lifespan \/ ReloadModel \/ Predict \/ Expire

Spec == Init /\ [][Next]_vars

\* The memoizer while seconds pass.
MemoNext == Lifespan \/ PredictAnswered \/ MemoAge

MemoSpec == Init /\ [][MemoNext]_vars

\* The prediction engine called directly.
EngineNext == Lifespan \/ ReloadModel \/ CallPredict

EngineSpec == Init /\ [][EngineNext]_vars

\* The cache service.
CacheNext == CacheOp

CacheSpec == Init /\ [][CacheNext]_vars

\* The completions list outlives the process: a start finds it at any length.
TrainInit ==
    /\ completions \in InitialCompletions
    /\ wired = FALSE
    /\ model_loaded = FALSE
    /\ store = [k \in CacheKeys |-> None]
    /\ resp = NoResponse
    /\ pred = NoPrediction
    /\ calls = {}
    /\ training_state = [is_training |-> FALSE, last_trained |-> NoTime,
                          last_result |-> NoResult]
    /\ tasks = {}
    /\ runs = 0
    /\ model_metrics = NoMetrics
    /\ train_resp = "none"
    /\ clock = 0
    /\ counters = [k \in CounterKeys |-> 0]
    /\ lists = [k \in ListKeys |-> [items |-> <<>>, ttl |-> 0]]
    /\ cache_ret = [op |-> "none", failed |-> FALSE, raised |-> FALSE, value |-> 0]
    /\ AdapterInit
    /\ ExpInit
    /\ BatchInit
    /\ ProbeInit

\* The condition adapters called directly.
AdapterNext == GetTrafficConditions \/ GetCurrentWeather \/ AdapterExpire

AdapterSpec == Init /\ [][AdapterNext]_vars

\* The experiment routes; the process's hash seed is drawn when it starts.
ExpSpecInit ==
    /\ wired = FALSE
    /\ model_loaded = FALSE
    /\ store = [k \in CacheKeys |-> None]
    /\ resp = NoResponse
    /\ pred = NoPrediction
    /\ calls = {}
    /\ training_state = [is_training |-> FALSE, last_trained |-> NoTime,
                          last_result |-> NoResult]
    /\ tasks = {}
    /\ runs = 0
    /\ completions = 0
    /\ model_metrics = NoMetrics
    /\ train_resp = "none"
    /\ clock = 0
    /\ counters = [k \in CounterKeys |-> 0]
    /\ lists = [k \in ListKeys |-> [items |-> <<>>, ttl |-> 0]]
    /\ cache_ret = [op |-> "none", failed |-> FALSE, raised |-> FALSE, value |-> 0]
    /\ AdapterInit
    /\ ExpInitOf(HashSeeds)
    /\ BatchInit
    /\ ProbeInit

ExpNext ==
    \/ Lifespan
    \/ CreateExperiment
    \/ StopExperiment
    \/ GetExperimentAssignment
    \/ RecordExperimentResult
    \/ GetExperimentResults

ExpSpec == ExpSpecInit /\ [][ExpNext]_vars

\* The registry under bodies that name their status and the percentages 0
\* and 100.
RegistryNext ==
    Lifespan \/ CreateExperimentPosted \/ StopExperiment \/ GetExperimentAssignment

RegistrySpec == ExpSpecInit /\ [][RegistryNext]_vars

\* One (user id, experiment id) pair assigned in two runs of the service.
TwoRunsSpec == Init /\ [][ApplyTwoRuns]_vars

\* The counter values of one arm, <<within_3min, total>>, that the cache may
\* hold when results are asked for.
ArmSamples ==
    {<<0, 0>>, <<0, 100>>, <<25, 50>>, <<60, 100>>, <<90, 150>>, <<105, 150>>,
     <<120, 150>>, <<135, 150>>}

\* The results route over a cache that holds counters for experiment e1.
ExpResultsInit ==
    /\ wired = FALSE
    /\ model_loaded = FALSE
    /\ store = [k \in CacheKeys |-> None]
    /\ resp = NoResponse
    /\ pred = NoPrediction
    /\ calls = {}
    /\ training_state = [is_training |-> FALSE, last_trained |-> NoTime,
                          last_result |-> NoResult]
    /\ tasks = {}
    /\ runs = 0
    /\ completions = 0
    /\ model_metrics = NoMetrics
    /\ train_resp = "none"
    /\ clock = 0
    /\ counters = [k \in CounterKeys |-> 0]
    /\ lists = [k \in ListKeys |-> [items |-> <<>>, ttl |-> 0]]
    /\ cache_ret = [op |-> "none", failed |-> FALSE, raised |-> FALSE, value |-> 0]
    /\ AdapterInit
    /\ BatchInit
    /\ ProbeInit
    /\ experiments = [id \in ExpIds |-> NoExperiment]
    /\ exp_store = [id \in ExpIds |-> None]
    /\ exp_ret = ExpRet("none", NoId, "none", 0, "none", 0, NoResult200)
    /\ hash_seed = 1
    /\ \E ml \in ArmSamples, simple \in ArmSamples :
          exp_counters =
            [k \in ExpCounterKeys |->
               IF k[1] # "e1" THEN 0
               ELSE IF k[2] = "ml" THEN (IF k[3] = "total" THEN ml[2] ELSE ml[1])
               ELSE IF k[2] = "simple" THEN (IF k[3] = "total" THEN simple[2] ELSE simple[1])
               ELSE 0]

ExpResultsNext == Lifespan \/ CreateExperiment \/ GetExperimentResults

ExpResultsSpec == ExpResultsInit /\ [][ExpResultsNext]_vars

\* The batch route next to startup and the expiry of memoizer entries.
BatchNext == Lifespan \/ BatchPredict \/ Expire

BatchSpec == Init /\ [][BatchNext]_vars

\* The completions list under appends and the passing of days.
CompletionNext == Lifespan \/ RecordTripCompletion \/ CompletionsAge

CompletionSpec == Init /\ [][CompletionNext]_vars

\* The memoizer key over pairs of requests.
KeySpec == Init /\ [][GenerateCacheKey]_vars

\* The fallback calculation over pairs of traffic levels.
FallbackSpec == Init /\ [][ApplyFallbackPair]_vars

\* The uncertainty calculation over the feature bags.
UncertaintySpec == Init /\ [][ApplyUncertainty]_vars

\* The weather impact multiplier over pairs of weather summaries.
WeatherImpactSpec == Init /\ [][ApplyWeatherImpact]_vars

\* The readiness probe while the model is reloaded and seconds pass.
ReadyNext == Lifespan \/ ReloadModel \/ ReadinessCheck \/ HealthAge

ReadySpec == Init /\ [][ReadyNext]_vars

\* The two no-model calculations over trips and conditions.
NoModelSpec == Init /\ [][ApplyNoModelPair]_vars

\* The training trigger and its background task.
TrainNext == Lifespan \/ TriggerTraining \/ RunTraining \/ Tick

TrainSpec == TrainInit /\ [][TrainNext]_vars

\* The event loop runs every scheduled background task, and each await of
\* _run_training (a Redis call with a timeout, a 5 second sleep) returns.
TrainFairSpec == TrainInit /\ [][TrainNext]_vars /\ WF_vars(RunTraining)

(***************************************************************************)
(* Properties                                                              *)
(***************************************************************************)

\* C1: every prediction result has confidence_low <= eta_seconds <=
\* confidence_high, whether the model path, the fallback path or the route's
\* simple calculation produced it.
C1_ConfidenceBand ==
    pred.path # "none" => (pred.min <= pred.eta /\ pred.eta <= pred.max)

\* C2: every prediction the predict operation returns has eta_seconds >= 60.
C2_MinimumEta ==
    resp.status = 200 => resp.eta_seconds >= MIN_ETA_SECONDS

\* C3: at most one training run is in progress at any time, and the flag says
\* running while one is.
C3_AtMostOneRun ==
    /\ Cardinality(tasks) <= 1
    /\ (tasks # {}) = training_state.is_training

\* A second run was started after the first one ended, and is in progress.
C3_Witness == runs = 2 /\ Cardinality(tasks) = 1 /\ train_resp = "started"

\* C4: a trigger_training call made while the flag is running answers 409,
\* schedules no run and leaves the training state as it was, forced or not.
C4_ConflictWhileRunning ==
    [][(training_state.is_training /\ TriggerTraining)
         => (train_resp' = "conflict" /\ tasks' = tasks /\ runs' = runs
             /\ training_state' = training_state)]_vars

\* A trigger was refused while a run is in progress.
C4_Witness == train_resp = "conflict" /\ training_state.is_training

C6_NeverErrors == resp.status # 500

\* A request whose model call raised was answered from the fallback.
C6_Witness ==
    /\ resp.status = 200
    /\ "prediction_failed" \in calls
    /\ resp.computed_by = "fallback"

C8_FallbackReported ==
    resp.computed_by = "fallback" => resp.prediction_method # "ml_model"

\* C9: when cache get returns an entry for the request's key, predict_eta
\* returns that entry with cached = true, invokes no adapter, extractor or
\* engine, and leaves the cache as it was.
C9_CacheHitBypasses ==
    [][\A request \in Requests :
         (/\ wired
          /\ store[request.key].kind # "none"
          /\ \E tr \in TrafficOutcomes, we \in WeatherOutcomes, mo \in ModelOutcomes,
                cset \in BOOLEAN : predict_eta(request, FALSE, tr, we, mo, cset))
         => (/\ resp' = [store[request.key].v EXCEPT !.cached = TRUE]
             /\ calls' = {"cache_get"}
             /\ store' = store)]_vars

\* A request was answered from the memoizer.
C9_Witness == resp.cached /\ calls = {"cache_get"} /\ resp.status = 200

\* C10: a backend error in a cache operation never leaves the operation; get
\* then returns None, set False, increment 0, get_list [] and push_list 0.
C10_ErrorsSwallowed ==
    /\ ~cache_ret.raised
    /\ cache_ret.failed =>
         CASE cache_ret.op = "get" -> cache_ret.value = None
           [] cache_ret.op = "set" -> cache_ret.value = FALSE
           [] cache_ret.op = "delete" -> cache_ret.value = FALSE
           [] cache_ret.op = "increment" -> cache_ret.value = 0
           [] cache_ret.op = "get_list" -> cache_ret.value = <<>>
           [] cache_ret.op = "push_list" -> cache_ret.value = 0
           [] OTHER -> FALSE

\* An increment whose backend call failed returned 0.
C10_Witness ==
    cache_ret.op = "increment" /\ cache_ret.failed /\ cache_ret.value = 0

\* C11: get_traffic_conditions and get_current_weather never raise and always
\* return a complete summary (traffic: speed_ratio, level, delay_minutes,
\* incidents; weather: condition, precipitation, visibility, temperature).
C11_AdaptersTotal ==
    /\ ~adapter_ret.raised
    /\ adapter_ret.op = "traffic" =>
         {"speed_ratio", "level", "delay_minutes", "incidents"} \subseteq adapter_ret.value.fields
    /\ adapter_ret.op = "weather" =>
         {"condition", "precipitation", "visibility", "temperature"} \subseteq adapter_ret.value.fields

C14_AssignmentRule ==
    exp_ret.op = "assign" =>
        LET e == experiments[exp_ret.id]
        IN IF e.kind = "none" \/ e.status # "active"
           THEN exp_ret.value = "none"
           ELSE /\ exp_ret.bucket \in 0..99
                /\ exp_ret.value \in {"treatment", "control"}
                /\ (exp_ret.value = "treatment") = (exp_ret.bucket < e.traffic_percentage)

\* A user whose bucket equals traffic_percentage was assigned to control.
C14_Witness ==
    /\ exp_ret.op = "assign"
    /\ exp_ret.value = "control"
    /\ exp_ret.bucket = experiments[exp_ret.id].traffic_percentage

\* C15: create_experiment answers 400 and leaves the registry and the cache
\* as they were when the id is registered already or traffic_percentage is
\* outside [0, 100]; otherwise it adds the entry under its id and changes no
\* other entry.
C15_CreateFrame ==
    [][\A config \in Configs, uuid \in ExpIds, cset \in BOOLEAN :
         create_experiment(config, uuid, cset) =>
            LET id == IF config.experiment_id = NoId THEN uuid ELSE config.experiment_id
            IN IF \/ experiments[id].kind # "none"
                  \/ config.traffic_percentage \notin 0..100
               THEN /\ exp_ret'.status = 400
                    /\ experiments' = experiments
                    /\ exp_store' = exp_store
               ELSE /\ exp_ret'.status = 200
                    /\ experiments'[id] =
                         Experiment(config.status, config.traffic_percentage, FALSE)
                    /\ \A other \in ExpIds \ {id} :
                         /\ experiments'[other] = experiments[other]
                         /\ exp_store'[other] = exp_store[other]]_vars

\* An experiment was created next to one registered before it.
C15_Witness ==
    /\ exp_ret.op = "create"
    /\ exp_ret.status = 200
    /\ \E other \in ExpIds \ {exp_ret.id} : experiments[other].kind # "none"

\* C16: a record for a registered experiment adds one to the total counter
\* of its arm, the counter get_experiment_results reads, and one to the
\* arm's within_3min counter exactly when the error is at most 180 seconds;
\* it leaves the other arm's counters and the registry as they were; for an
\* unregistered id it answers 404 and changes nothing.
C16_RecordCounts ==
    [][\A id \in ExpIds, method \in Methods, pair \in ErrorPairs, f1 \in BOOLEAN, f2 \in BOOLEAN :
         record_experiment_result(id, method, pair[1], pair[2], f1, f2) =>
            IF experiments[id].kind = "none"
            THEN /\ exp_ret'.status = 404
                 /\ exp_counters' = exp_counters
                 /\ experiments' = experiments
            ELSE LET arm == ResultsArm(method)
                     other == ResultsArm(CHOOSE m \in Methods : m # method)
                 IN /\ exp_counters'[<<id, arm, "total">>] =
                         exp_counters[<<id, arm, "total">>] + 1
                    /\ exp_counters'[<<id, arm, "within_3min">>] =
                         exp_counters[<<id, arm, "within_3min">>]
                           + (IF Abs(pair[1] - pair[2]) <= 180 THEN 1 ELSE 0)
                    /\ \A metric \in CounterMetrics :
                         exp_counters'[<<id, other, metric>>] =
                           exp_counters[<<id, other, metric>>]
                    /\ experiments' = experiments]_vars

\* C17: the results report, for all counter values, each arm's accuracy as
\* within_3min / total * 100 (0 when the arm has no samples), improvement as
\* the treatment accuracy minus the control accuracy, and significance as
\* both arms having at least 100 samples (accuracy and improvement in
\* hundredths of a percent, as the route rounds them).
C17_ResultsRecomputed ==
    (exp_ret.op = "results" /\ exp_ret.status = 200) =>
        LET r == exp_ret.result
            tw == r.treatment_within
            tt == r.treatment_size
            cw == r.control_within
            ct == r.control_size
            td == IF tt > 0 THEN tt ELSE 1
            cd == IF ct > 0 THEN ct ELSE 1
        IN /\ r.treatment_accuracy = (IF tt > 0 THEN RoundHalfEven(tw * 100 * 100, tt) ELSE 0)
           /\ r.control_accuracy = (IF ct > 0 THEN RoundHalfEven(cw * 100 * 100, ct) ELSE 0)
           /\ r.improvement = RoundHalfEven((tw * cd - cw * td) * 100 * 100, td * cd)
           /\ r.significant = (tt >= 100 /\ ct >= 100)

C19_BatchTotal ==
    [][\A batch \in Batches :
         batch_predict_eta(batch) =>
            IF Len(batch) > 50
            THEN /\ batch_ret'.status = 400
                 /\ batch_ret'.results = <<>>
                 /\ UNCHANGED <<store, resp, pred, calls>>
            ELSE /\ batch_ret'.status = 200
                 /\ Len(batch_ret'.results) = Len(batch)
                 /\ \A i \in 1..Len(batch) :
                      LET entry == batch_ret'.results[i]
                      IN IF batch[i].unexpected
                         THEN /\ entry.display_text = "Unable to calculate ETA"
                              /\ entry.response.eta_seconds = 0
                              /\ entry.response.lower = 0
                              /\ entry.response.upper = 0
                         ELSE /\ entry.display_text # "Unable to calculate ETA"
                              /\ entry.response.status = 200
                              /\ entry.response.eta_seconds > 0
                              /\ ~wired =>
                                   entry.response =
                                     BuildResponse(
                                       _simple_eta_calculation(batch[i].request, NoData),
                                       "simple_calculation")]_vars

\* A batch of two was answered with the zero entry for its first request,
\* which failed, and a prediction for its second.
C19_Witness ==
    /\ batch_ret.op = "batch"
    /\ batch_ret.status = 200
    /\ batch_ret.n = 2
    /\ Len(batch_ret.results) = 2
    /\ batch_ret.results[1] = UnableEntry
    /\ batch_ret.results[2].response.eta_seconds > 0

\* C20: a run trains and writes the model metrics only from a completions
\* list the training-data stats report as ready for training (at least 1000
\* records); a run that found fewer records recorded a failure.
C20_TrainsOnlyWhenReady ==
    /\ model_metrics.kind = "metrics" =>
          get_training_data_stats(model_metrics.training_samples).ready_for_training
    /\ training_state.last_result.status = "success" =>
          get_training_data_stats(training_state.last_result.samples).ready_for_training
    /\ \A t \in tasks :
          t.pc \in {"sleep", "set_metrics"} => get_training_data_stats(t.n).ready_for_training

\* C21: every record_trip_completion call appends exactly one record to the
\* completions list, leaving the earlier records as they were, and sets the
\* TTL of the whole list to 7 days; the list changes in no other way than by
\* such an append or by expiring as a whole when its TTL has run out.
C21_AppendOnlyRenewed ==
    [][/\ \A trip_id \in ListItems, pair \in ErrorPairs, failAt \in {0, 1, 2},
             f1 \in BOOLEAN, f2 \in BOOLEAN :
            record_trip_completion(trip_id, pair[1], pair[2], failAt, f1, f2) =>
               /\ lists'[CompletionsKey].items =
                     Append(lists[CompletionsKey].items,
                            TrainingRecord(trip_id, pair[1], pair[2]))
               /\ lists'[CompletionsKey].ttl = 7 * 86400
       /\ lists'[CompletionsKey].items # lists[CompletionsKey].items =>
            \/ /\ Len(lists'[CompletionsKey].items) = Len(lists[CompletionsKey].items) + 1
               /\ SubSeq(lists'[CompletionsKey].items, 1, Len(lists[CompletionsKey].items))
                    = lists[CompletionsKey].items
            \/ /\ lists'[CompletionsKey].items = <<>>
               /\ lists[CompletionsKey].ttl > 0]_vars

\* C22: two requests whose four coordinates are equal after rounding to 4
\* decimals and whose times fall in the same 5-minute bucket get the same
\* key; the key of one request generated twice is the same; requests in
\* different 5-minute buckets get different keys.
C22_KeyByRoundedInputs ==
    calc.op = "cache_key" =>
        LET a == calc.a
            b == calc.b
            same_rounded ==
                /\ Round4Value(a.pickup_lat) = Round4Value(b.pickup_lat)
                /\ Round4Value(a.pickup_lng) = Round4Value(b.pickup_lng)
                /\ Round4Value(a.dropoff_lat) = Round4Value(b.dropoff_lat)
                /\ Round4Value(a.dropoff_lng) = Round4Value(b.dropoff_lng)
            same_bucket == InstantBucket(a.time) = InstantBucket(b.time)
        IN /\ (same_rounded /\ same_bucket) => calc.key_a = calc.key_b
           /\ calc.key_a_again = calc.key_a
           /\ ~same_bucket => calc.key_a # calc.key_b

C24_WeatherImpact ==
    calc.op = "weather_impact" =>
        LET Condition(w) == WeatherGet(w, "condition", <<"c", "l", "e", "a", "r">>)
            Clear(w) == Condition(w) \in {<<"c", "l", "e", "a", "r">>,
                                          <<"C", "l", "e", "a", "r">>}
            Rain(w) == Condition(w) \in {<<"r", "a", "i", "n">>, <<"R", "a", "i", "n">>,
                                         <<"l", "i", "g", "h", "t", " ", "r", "a", "i", "n">>}
            Precipitation(w) == WeatherGet(w, "precipitation", 0)
            Visibility(w) == WeatherGet(w, "visibility", 100)
        IN /\ (Clear(calc.a) /\ Visibility(calc.a) >= 30) => calc.multiplier_a = 10000
           /\ Rain(calc.a) => calc.multiplier_a > 10000
           /\ (/\ Rain(calc.a)
               /\ Precipitation(calc.a) > 100
               /\ Visibility(calc.b) = Visibility(calc.a)
               /\ Clear(calc.b) \/ (Rain(calc.b) /\ Precipitation(calc.b) <= 100))
                  => calc.multiplier_a > calc.multiplier_b

\* Rain with precipitation of 15 at 2 km visibility against rain with
\* precipitation of 5 at the same visibility.
C24_Witness ==
    /\ calc.op = "weather_impact"
    /\ calc.a = [condition |-> <<"r", "a", "i", "n">>, precipitation |-> 150,
                 visibility |-> 20]
    /\ calc.b = [condition |-> <<"r", "a", "i", "n">>, precipitation |-> 50,
                 visibility |-> 20]
    /\ calc.multiplier_a = 14300
    /\ calc.multiplier_b = 12650

\* C25: a readiness check answers ready exactly when the model is loaded or
\* the probe's read gives back the "ok" written under health:check, and
\* not_ready otherwise; a failing probe never makes the check raise.
C25_ReadyIffProbeOrModel ==
    [][\A fs \in BOOLEAN, fg \in BOOLEAN :
          readiness_check(fs, fg) =>
              LET probe_ok == /\ wired
                              /\ ~fg
                              /\ (~fs \/ health_kv[HealthKey].kind # "none")
              IN /\ ready_ret'.status = "ready" <=> (probe_ok \/ (wired /\ model_loaded))
                 /\ ready_ret'.status = "not_ready" <=> ~(probe_ok \/ (wired /\ model_loaded))
                 /\ ~ready_ret'.raised]_vars

\* A check that answered ready on the loaded model while the probe's read
\* failed.
C25_Witness ==
    /\ ready_ret.op = "ready"
    /\ ready_ret.status = "ready"
    /\ ~ready_ret.cache_connected
    /\ ready_ret.model_loaded
    /\ ready_ret.get_failed
    /\ ~ready_ret.raised

\* C26: when a background run ends with success, the step that ends it stores
\* the metrics blob of that run, sets last_trained to the current time and
\* records last_result success; when a run ends in failure (too few records,
\* no cache service, an exception) it records last_result failed with a
\* reason and leaves last_trained and the stored metrics as they were.
C26_RunOutcome ==
    [][Cardinality(tasks') < Cardinality(tasks) =>
          IF training_state'.last_result.status = "success"
          THEN /\ model_metrics' = [kind |-> "metrics",
                                    training_samples |-> training_state'.last_result.samples]
               /\ training_state'.last_trained = clock
          ELSE /\ training_state'.last_result.status = "failed"
               /\ training_state'.last_result.detail \in {"insufficient", "error"}
               /\ training_state'.last_trained = training_state.last_trained
               /\ model_metrics' = model_metrics]_vars

\* C27: a trigger_training call made while no run is in progress, without
\* force and less than the retrain interval after the last training, answers
\* skipped, schedules nothing and leaves the training state as it was; a call
\* made while no run is in progress with force, with no earlier training, or
\* once the interval has passed answers started, has set the flag and has
\* scheduled exactly one background run.
C27_TriggerOutcome ==
    [][\A force \in BOOLEAN :
          (trigger_training(force) /\ ~training_state.is_training) =>
              LET within ==
                      /\ training_state.last_trained # NoTime
                      /\ (clock - training_state.last_trained) * HOURS_PER_TICK < 24
              IN IF ~force /\ within
                 THEN /\ train_resp' = "skipped"
                      /\ tasks' = tasks
                      /\ training_state' = training_state
                 ELSE /\ train_resp' = "started"
                      /\ training_state' = [training_state EXCEPT !.is_training = TRUE]
                      /\ tasks \subseteq tasks'
                      /\ Cardinality(tasks' \ tasks) = 1
                      /\ \A t \in tasks' \ tasks : t.pc = "scheduled"]_vars

\* A call that was skipped: the last training is recent, nothing is scheduled
\* and the flag is down.
C27_Witness ==
    /\ train_resp = "skipped"
    /\ training_state.last_trained # NoTime
    /\ (clock - training_state.last_trained) * HOURS_PER_TICK < 24
    /\ ~training_state.is_training
    /\ tasks = {}

\* C28 as stated: an adapter call that finds nothing in the cache writes the
\* summary it returns under its key with TTL 30 (traffic) or 300 (weather);
\* a call that finds an entry returns the entry's value, whatever the
\* provider would answer, and leaves the cache as it was.
C28_WriteThrough ==
    [][/\ adapter_ret'.op = "traffic" =>
          \A shape \in {c \in CoordShapes : ~AdapterCacheKey("traffic", c).raised},
             cget \in BOOLEAN, cset \in BOOLEAN, c \in TrafficCallKinds :
              LET r == get_traffic_conditions(adapter_cache, shape, cget, c.has_key, c.api,
                                              c.hour, c.weekday, c.is_cbd, cset)
                  hit == ~cget /\ adapter_cache["traffic"].kind # "none"
              IN (/\ ~r.raised
                  /\ adapter_ret' = [op |-> "traffic", raised |-> r.raised, value |-> r.value]
                  /\ adapter_cache' = r.kv) =>
                     IF hit
                     THEN /\ adapter_ret'.value = adapter_cache["traffic"].v
                          /\ adapter_cache' = adapter_cache
                          /\ \A other \in TrafficProviderOutcomes :
                                get_traffic_conditions(adapter_cache, shape, cget, c.has_key,
                                    other, c.hour, c.weekday, c.is_cbd, cset) = r
                     ELSE adapter_cache' = [adapter_cache EXCEPT !["traffic"] =
                              [kind |-> "entry", v |-> adapter_ret'.value, ttl |-> 30]]
       /\ adapter_ret'.op = "weather" =>
          \A shape \in {c \in CoordShapes : ~AdapterCacheKey("weather", c).raised},
             cget \in BOOLEAN, has_key \in BOOLEAN, cset \in BOOLEAN,
             api \in WeatherProviderOutcomes :
              LET r == get_current_weather(adapter_cache, shape, cget, has_key, api, cset)
                  hit == ~cget /\ adapter_cache["weather"].kind # "none"
              IN (/\ ~r.raised
                  /\ adapter_ret' = [op |-> "weather", raised |-> r.raised, value |-> r.value]
                  /\ adapter_cache' = r.kv) =>
                     IF hit
                     THEN /\ adapter_ret'.value = adapter_cache["weather"].v
                          /\ adapter_cache' = adapter_cache
                          /\ \A other \in WeatherProviderOutcomes :
                                get_current_weather(adapter_cache, shape, cget, has_key,
                                    other, cset) = r
                     ELSE adapter_cache' = [adapter_cache EXCEPT !["weather"] =
                              [kind |-> "entry", v |-> adapter_ret'.value, ttl |-> 300]]]_vars

\* C28, amended: an adapter call that finds nothing in the cache and obtains
\* a summary (from the provider or the estimate) returns that summary, and
\* the cache then holds it under the adapter's key with TTL 30 (traffic) or
\* 300 (weather) unless the backend refused the write, in which case the cache
\* is as it was; when obtaining the summary raises, the call returns the
\* default summary and writes nothing.  A call that finds an entry returns
\* the entry's value, whatever the provider would answer, and leaves the
\* cache as it was.
C28_WriteThroughBestEffort ==
    [][/\ adapter_ret'.op = "traffic" =>
          \A shape \in {c \in CoordShapes : ~AdapterCacheKey("traffic", c).raised},
             cget \in BOOLEAN, cset \in BOOLEAN, c \in TrafficCallKinds :
              LET r == get_traffic_conditions(adapter_cache, shape, cget, c.has_key, c.api,
                                              c.hour, c.weekday, c.is_cbd, cset)
                  hit == ~cget /\ adapter_cache["traffic"].kind # "none"
                  obtained == TrafficObtained(c)
              IN (/\ ~r.raised
                  /\ adapter_ret' = [op |-> "traffic", raised |-> r.raised, value |-> r.value]
                  /\ adapter_cache' = r.kv) =>
                     IF hit
                     THEN /\ adapter_ret'.value = adapter_cache["traffic"].v
                          /\ adapter_cache' = adapter_cache
                          /\ \A other \in TrafficProviderOutcomes :
                                get_traffic_conditions(adapter_cache, shape, cget, c.has_key,
                                    other, c.hour, c.weekday, c.is_cbd, cset) = r
                     ELSE IF obtained.raised
                          THEN /\ adapter_ret'.value = _default_traffic
                               /\ adapter_cache' = adapter_cache
                          ELSE /\ adapter_ret'.value = obtained.value
                               /\ adapter_cache' =
                                    IF cset THEN adapter_cache
                                    ELSE [adapter_cache EXCEPT !["traffic"] =
                                            [kind |-> "entry", v |-> adapter_ret'.value,
                                             ttl |-> 30]]
       /\ adapter_ret'.op = "weather" =>
          \A shape \in {c \in CoordShapes : ~AdapterCacheKey("weather", c).raised},
             cget \in BOOLEAN, has_key \in BOOLEAN, cset \in BOOLEAN,
             api \in WeatherProviderOutcomes :
              LET r == get_current_weather(adapter_cache, shape, cget, has_key, api, cset)
                  hit == ~cget /\ adapter_cache["weather"].kind # "none"
                  obtained == IF has_key THEN WeatherService_fetch_from_api(api)
                              ELSE [raised |-> FALSE, value |-> WeatherSummary("clear")]
              IN (/\ ~r.raised
                  /\ adapter_ret' = [op |-> "weather", raised |-> r.raised, value |-> r.value]
                  /\ adapter_cache' = r.kv) =>
                     IF hit
                     THEN /\ adapter_ret'.value = adapter_cache["weather"].v
                          /\ adapter_cache' = adapter_cache
                          /\ \A other \in WeatherProviderOutcomes :
                                get_current_weather(adapter_cache, shape, cget, has_key,
                                    other, cset) = r
                     ELSE IF obtained.raised
                          THEN /\ adapter_ret'.value = _default_weather
                               /\ adapter_cache' = adapter_cache
                          ELSE /\ adapter_ret'.value = obtained.value
                               /\ adapter_cache' =
                                    IF cset THEN adapter_cache
                                    ELSE [adapter_cache EXCEPT !["weather"] =
                                            [kind |-> "entry", v |-> adapter_ret'.value,
                                             ttl |-> 300]]]_vars

\* A traffic call that missed and wrote the summary it returned, while an
\* older weather entry is still cached.
C28_Witness ==
    /\ adapter_ret.op = "traffic"
    /\ ~adapter_ret.raised
    /\ adapter_cache["traffic"] = [kind |-> "entry", v |-> adapter_ret.value, ttl |-> 30]
    /\ adapter_ret.value.level = "severe"
    /\ adapter_cache["weather"].kind # "none"
    /\ adapter_cache["weather"].ttl = 300

\* C29: a memoizer entry comes into being or gets a longer TTL only by a
\* request that missed and computed its response in that step, and it then
\* holds that response with TTL 30; a request answered from the memoizer
\* leaves every entry and its TTL as they were and returns a response that
\* was computed at most 30 seconds before.
C29_MemoFreshness ==
    [][/\ \A k \in CacheKeys :
            (/\ store'[k].kind # "none"
             /\ \/ store[k].kind = "none"
                \/ store'[k].v # store[k].v
                \/ store'[k].ttl > store[k].ttl)
            => (/\ store'[k] = [kind |-> "entry", v |-> resp', ttl |-> 30]
                /\ ~resp'.cached
                /\ resp'.timestamp = utcnow'
                /\ "cache_set" \in calls')
       /\ \A request \in Requests :
            (/\ resp'.cached
             /\ utcnow' = utcnow
             /\ \E cget \in BOOLEAN, cset \in BOOLEAN, tr \in TrafficOutcomes,
                   we \in WeatherOutcomes, mo \in ModelOutcomes :
                    predict_eta(request, cget, tr, we, mo, cset))
            => (/\ store' = store
                /\ utcnow - resp'.timestamp <= 30)]_vars

\* A request was answered from the memoizer with a response computed 20
\* seconds before, and the entry it came from has 10 seconds left.
C29_Witness ==
    /\ resp.cached
    /\ calls = {"cache_get"}
    /\ utcnow - resp.timestamp = 20
    /\ \E k \in CacheKeys :
         /\ store[k].kind # "none"
         /\ store[k].ttl = 10
         /\ resp = [store[k].v EXCEPT !.cached = TRUE]

\* C30: the uncertainty of the model path is 10% plus 5% when it rains, 8%
\* when the traffic level is heavy or severe, 5% in the morning or evening
\* rush hour and 5% when the road distance is above 10 km, cut to 30%; it
\* always lies between 10% and 30%.
C30_Uncertainty ==
    calc.op = "uncertainty" =>
        LET f == calc.features
            Flag(k) == k \in DOMAIN f /\ f[k] # 0
            Above(k, n) == k \in DOMAIN f /\ f[k] > n
            sum == 10 + (IF Flag("is_raining") THEN 5 ELSE 0)
                      + (IF Above("traffic_level_encoded", 1) THEN 8 ELSE 0)
                      + (IF Flag("is_rush_hour_morning") \/ Flag("is_rush_hour_evening")
                         THEN 5 ELSE 0)
                      + (IF Above("estimated_road_distance_km", 1000) THEN 5 ELSE 0)
        IN /\ calc.uncertainty = (IF sum > 30 THEN 30 ELSE sum)
           /\ 10 <= calc.uncertainty
           /\ calc.uncertainty <= 30

\* A long trip in the rain, in heavy traffic and in a rush hour: the
\* allowances add up to 33% and the uncertainty is 30%.
C30_Witness ==
    /\ calc.op = "uncertainty"
    /\ calc.uncertainty = 30
    /\ calc.features # EmptyFeatures
    /\ calc.features["is_raining"] # 0
    /\ calc.features["traffic_level_encoded"] >= 2
    /\ calc.features["is_rush_hour_morning"] # 0
    /\ calc.features["estimated_road_distance_km"] > 1000

\* C31: with no model available the route's simple calculation gives, for the
\* same trip and conditions, the same estimate and the same bounds as
\* ModelService's fallback: at least 60 seconds, with a band of 25%.
C31_OneFallbackRule ==
    calc.op = "no_model_pair" =>
        /\ calc.simple.eta = calc.fallback.eta
        /\ calc.simple.min = calc.fallback.min
        /\ calc.simple.max = calc.fallback.max
        /\ calc.simple.eta >= MIN_ETA_SECONDS * TicksPerSecond
        /\ calc.simple.max - calc.simple.eta = (calc.simple.eta \div 100) * 25

\* C32: every experiment in the registry has status active or stopped and a
\* traffic_percentage from 0 to 100, and an experiment that has just been
\* created is active.
C32_RegistryWellFormed ==
    [][\A id \in ExpIds :
          /\ experiments'[id].kind # "none" =>
                /\ experiments'[id].status \in {"active", "stopped"}
                /\ experiments'[id].traffic_percentage \in 0..100
          /\ (experiments[id].kind = "none" /\ experiments'[id].kind # "none") =>
                experiments'[id].status = "active"]_vars


\* C33: the cohort of a (user id, experiment id) pair is the same in two
\* separate runs of the process on the same experiment configuration: the
\* hash bucket does not depend on per-process state.
C33_SameCohortAcrossRuns ==
    calc.op = "two_runs" =>
        /\ calc.first.value = calc.second.value
        /\ calc.first.bucket = calc.second.bucket


\* C34: for each experiment arm and for the global accuracy counters,
\* within_3min never exceeds total, so every reported accuracy (kept in
\* hundredths of a percent) lies in [0, 100], also when single cache
\* increments fail and are swallowed.
C34_WithinAtMostTotal ==
    /\ \A id \in ExpIds, arm \in CounterArms :
          /\ exp_counters[<<id, arm, "within_3min">>] <= exp_counters[<<id, arm, "total">>]
          /\ Accuracy(exp_counters[<<id, arm, "within_3min">>],
                      exp_counters[<<id, arm, "total">>]) \in 0..(100 * 100)
    /\ counters["eta:metrics:within_3min"] <= counters["eta:metrics:total_predictions"]


\* C35 as stated: when the provider answers with a non-200 status the adapter
\* returns the default summary and the cache then holds that default under
\* the adapter's key with the normal TTL, so that a later call that reads the
\* cache is served the default whatever the provider answers; when the
\* provider call raises, the default is returned and the cache is as it was.
C35_Non200DefaultCached ==
    [][/\ adapter_ret'.op = "traffic" =>
          \A shape \in {c \in CoordShapes : ~AdapterCacheKey("traffic", c).raised},
             cget \in BOOLEAN, cset \in BOOLEAN, api \in ProviderFailures :
              LET r == get_traffic_conditions(adapter_cache, shape, cget, TRUE, api,
                                              0, TRUE, TRUE, cset)
                  miss == cget \/ adapter_cache["traffic"].kind = "none"
              IN (/\ miss
                  /\ adapter_ret'.raised = r.raised
                  /\ adapter_ret'.value = r.value
                  /\ adapter_cache' = r.kv) =>
                     /\ adapter_ret'.value = _default_traffic
                     /\ IF api.kind = "non200"
                        THEN /\ adapter_cache' = [adapter_cache EXCEPT !["traffic"] =
                                  [kind |-> "entry", v |-> _default_traffic, ttl |-> 30]]
                             /\ \A later \in TrafficProviderOutcomes :
                                   get_traffic_conditions(adapter_cache', shape, FALSE, TRUE,
                                       later, 0, TRUE, TRUE, FALSE).value = _default_traffic
                        ELSE adapter_cache' = adapter_cache
       /\ adapter_ret'.op = "weather" =>
          \A shape \in {c \in CoordShapes : ~AdapterCacheKey("weather", c).raised},
             cget \in BOOLEAN, cset \in BOOLEAN, api \in ProviderFailures :
              LET r == get_current_weather(adapter_cache, shape, cget, TRUE, api, cset)
                  miss == cget \/ adapter_cache["weather"].kind = "none"
              IN (/\ miss
                  /\ adapter_ret'.raised = r.raised
                  /\ adapter_ret'.value = r.value
                  /\ adapter_cache' = r.kv) =>
                     /\ adapter_ret'.value = _default_weather
                     /\ IF api.kind = "non200"
                        THEN /\ adapter_cache' = [adapter_cache EXCEPT !["weather"] =
                                  [kind |-> "entry", v |-> _default_weather, ttl |-> 300]]
                             /\ \A later \in WeatherProviderOutcomes :
                                   get_current_weather(adapter_cache', shape, FALSE, TRUE,
                                       later, FALSE).value = _default_weather
                        ELSE adapter_cache' = adapter_cache]_vars

\* C35, amended: when the provider answers with a non-200 status the adapter
\* returns the default summary and, unless the backend refuses the write,
\* the cache then holds that default under the adapter's key with the normal
\* TTL, so that a later call that reads the cache is served the default
\* whatever the provider answers; when the write is refused the cache is as
\* it was.  When the provider call raises, the default is returned and the
\* cache is as it was.
C35_Non200DefaultCachedBestEffort ==
    [][/\ adapter_ret'.op = "traffic" =>
          \A shape \in {c \in CoordShapes : ~AdapterCacheKey("traffic", c).raised},
             cget \in BOOLEAN, cset \in BOOLEAN, api \in ProviderFailures :
              LET r == get_traffic_conditions(adapter_cache, shape, cget, TRUE, api,
                                              0, TRUE, TRUE, cset)
                  miss == cget \/ adapter_cache["traffic"].kind = "none"
              IN (/\ miss
                  /\ adapter_ret'.raised = r.raised
                  /\ adapter_ret'.value = r.value
                  /\ adapter_cache' = r.kv) =>
                     /\ adapter_ret'.value = _default_traffic
                     /\ IF api.kind = "non200" /\ ~cset
                        THEN /\ adapter_cache' = [adapter_cache EXCEPT !["traffic"] =
                                  [kind |-> "entry", v |-> _default_traffic, ttl |-> 30]]
                             /\ \A later \in TrafficProviderOutcomes :
                                   get_traffic_conditions(adapter_cache', shape, FALSE, TRUE,
                                       later, 0, TRUE, TRUE, FALSE).value = _default_traffic
                        ELSE adapter_cache' = adapter_cache
       /\ adapter_ret'.op = "weather" =>
          \A shape \in {c \in CoordShapes : ~AdapterCacheKey("weather", c).raised},
             cget \in BOOLEAN, cset \in BOOLEAN, api \in ProviderFailures :
              LET r == get_current_weather(adapter_cache, shape, cget, TRUE, api, cset)
                  miss == cget \/ adapter_cache["weather"].kind = "none"
              IN (/\ miss
                  /\ adapter_ret'.raised = r.raised
                  /\ adapter_ret'.value = r.value
                  /\ adapter_cache' = r.kv) =>
                     /\ adapter_ret'.value = _default_weather
                     /\ IF api.kind = "non200" /\ ~cset
                        THEN /\ adapter_cache' = [adapter_cache EXCEPT !["weather"] =
                                  [kind |-> "entry", v |-> _default_weather, ttl |-> 300]]
                             /\ \A later \in WeatherProviderOutcomes :
                                   get_current_weather(adapter_cache', shape, FALSE, TRUE,
                                       later, FALSE).value = _default_weather
                        ELSE adapter_cache' = adapter_cache]_vars

\* A traffic call that returned the default summary and left it in the cache
\* with TTL 30, while the weather key holds no entry.
C35_Witness ==
    /\ adapter_ret.op = "traffic"
    /\ ~adapter_ret.raised
    /\ adapter_ret.value = _default_traffic
    /\ adapter_cache["traffic"] = [kind |-> "entry", v |-> _default_traffic, ttl |-> 30]
    /\ adapter_cache["weather"].kind = "none"


\* C36: record_experiment_result accepts a result for every registered
\* experiment whatever its status, so the counters of a stopped experiment
\* can still grow, while an assignment for a stopped experiment is none.
C36_StoppedStillRecords ==
    [][\A id \in ExpIds :
          /\ (/\ exp_ret' # exp_ret \/ exp_counters' # exp_counters
              /\ exp_ret'.op = "record"
              /\ exp_ret'.id = id) =>
                /\ exp_ret'.status = (IF experiments[id].kind = "none" THEN 404 ELSE 200)
                /\ \A k \in ExpCounterKeys : exp_counters'[k] >= exp_counters[k]
                /\ experiments' = experiments
          /\ (experiments'[id].kind # "none" /\ experiments'[id].status = "stopped") =>
                \A user_id \in Users :
                    Assignment(experiments', hash_seed', user_id, id).value = "none"]_vars

\* A result was recorded for a stopped experiment and its total counter grew
\* from zero.
C36_Witness ==
    /\ exp_ret.op = "record"
    /\ exp_ret.status = 200
    /\ experiments[exp_ret.id].kind # "none"
    /\ experiments[exp_ret.id].status = "stopped"
    /\ \E method \in Methods : exp_counters[<<exp_ret.id, method, "total">>] > 0


\* C37: a load_model or reload that fails or finds no model file leaves a
\* previously loaded model in place: once the engine is ready, no load,
\* reload or predict moves it back to the no-model state.
C37_ModelStaysLoaded ==
    [][model_loaded => model_loaded']_vars

\* The engine is ready after startup and a prediction came from the model
\* itself.
C37_Witness ==
    wired /\ model_loaded /\ pred.path = "model" /\ calls = {"engine"}


\* C38: for an active experiment, traffic_percentage 0 assigns control to
\* every user and traffic_percentage 100 assigns treatment to every user.
C38_AllOrNothing ==
    /\ \A id \in ExpIds, user_id \in Users :
          (experiments[id].kind # "none" /\ experiments[id].status = "active") =>
              /\ experiments[id].traffic_percentage = 0 =>
                    AssignmentNow(user_id, id).value = "control"
              /\ experiments[id].traffic_percentage = 100 =>
                    AssignmentNow(user_id, id).value = "treatment"
    /\ (/\ exp_ret.op = "assign"
        /\ experiments[exp_ret.id].kind # "none"
        /\ experiments[exp_ret.id].status = "active") =>
           /\ experiments[exp_ret.id].traffic_percentage = 0 => exp_ret.value = "control"
           /\ experiments[exp_ret.id].traffic_percentage = 100 => exp_ret.value = "treatment"

\* A user in the last bucket was assigned treatment by an active experiment
\* at 100 percent while the other experiment is active at 0 percent.
C38_Witness ==
    /\ exp_ret.op = "assign"
    /\ exp_ret.value = "treatment"
    /\ exp_ret.bucket = 99
    /\ experiments[exp_ret.id].status = "active"
    /\ experiments[exp_ret.id].traffic_percentage = 100
    /\ \E other \in ExpIds \ {exp_ret.id} :
          /\ experiments[other].kind # "none"
          /\ experiments[other].status = "active"
          /\ experiments[other].traffic_percentage = 0

=============================================================================
